---- MODULE Spec2Model ----
(***************************************************************************)
(* Password Strength Checker: the scoring pipeline of password_checker.py, *)
(* the modular analyzers/validators, the common-password check and the     *)
(* Have-I-Been-Pwned breach check of checker.py, and the breach display of *)
(* display.py.                                                             *)
(*                                                                         *)
(* Strings are sequences of one-character strings, so that slicing,        *)
(* lower-casing, substring search, splitting and parsing are computed the  *)
(* way the Python code computes them.  The character universe is printable *)
(* ASCII (letters, digits, string.punctuation, the space) and the newline. *)
(* A value that Python holds as None-or-x is <<>> or <<x>>.                *)
(***************************************************************************)
EXTENDS Integers, Sequences, FiniteSets, TLC

VARIABLES
    password,       \* the password under analysis (the argument of every call)
    wordfile,       \* the word-list source COMMON_PASSWORDS_FILE
    cache,          \* checker._COMMON_PASSWORDS_CACHE
    warnings,       \* number of [WARN] lines printed by load_common_passwords
    results,        \* dict returned by analyze_password, None before the call
    common_ret,     \* tuple returned by check_common_password, None before
    pwned_ret,      \* tuple returned by check_pwned_password, None before
    request,        \* api_url of the request sent by check_pwned_password
    net,            \* what the lookup service did with that request
    ret,            \* outcome of the last call of a function applied on its own
    thread,         \* per thread, its position in check_common_password
    loads,          \* number of assignments to _COMMON_PASSWORDS_CACHE
    main            \* position and outputs of the loop of main()

vars == <<password, wordfile, cache, warnings, results, common_ret, pwned_ret,
          request, net, ret, thread, loads, main>>

(***************************************************************************)
(* Characters and str methods                                              *)
(***************************************************************************)
LOWERCASE_CHARS ==
    <<"a", "b", "c", "d", "e", "f", "g", "h", "i", "j", "k", "l", "m",
      "n", "o", "p", "q", "r", "s", "t", "u", "v", "w", "x", "y", "z">>

UPPERCASE_CHARS ==
    <<"A", "B", "C", "D", "E", "F", "G", "H", "I", "J", "K", "L", "M",
      "N", "O", "P", "Q", "R", "S", "T", "U", "V", "W", "X", "Y", "Z">>

DIGIT_CHARS == <<"0", "1", "2", "3", "4", "5", "6", "7", "8", "9">>

\* string.punctuation; its grave accent (U+0060) is written "GRAVE", because
\* the lexer does not accept that character inside a string
SPECIAL_CHARS ==
    <<"!", "\"", "#", "$", "%", "&", "'", "(", ")", "*", "+", ",", "-", ".",
      "/", ":", ";", "<", "=", ">", "?", "@", "[", "\\", "]", "^", "_", "GRAVE",
      "{", "|", "}", "~">>

Range(s) == {s[i] : i \in 1..Len(s)}

\* SUPERSCRIPT TWO (U+00B2), written "SUP2": a character for which
\* str.isdigit() is True while int() raises ValueError and \d does not match
SUPERSCRIPT_TWO == "SUP2"

CharUniverse ==
    Range(LOWERCASE_CHARS) \cup Range(UPPERCASE_CHARS) \cup Range(DIGIT_CHARS)
        \cup Range(SPECIAL_CHARS) \cup {" ", "\n", SUPERSCRIPT_TWO}

\* `c in s` for a single character c
InStr(c, s) == \E i \in 1..Len(s) : s[i] = c

IndexIn(c, s) == CHOOSE i \in 1..Len(s) : s[i] = c

LowerChar(c) ==
    IF InStr(c, UPPERCASE_CHARS)
    THEN LOWERCASE_CHARS[IndexIn(c, UPPERCASE_CHARS)]
    ELSE c

LowerTable == [c \in CharUniverse |-> LowerChar(c)]

\* str.lower()
lower(s) == [i \in 1..Len(s) |-> LowerTable[s[i]]]

\* str.isalpha() / str.isdigit() of one character
isalpha(c) == InStr(c, LOWERCASE_CHARS) \/ InStr(c, UPPERCASE_CHARS)

isdigit(c) == InStr(c, DIGIT_CHARS) \/ c = SUPERSCRIPT_TWO

\* \d of a regular expression: a decimal digit
isdecimal(c) == InStr(c, DIGIT_CHARS)

\* int(c) raises ValueError
int_raises(c) == ~InStr(c, DIGIT_CHARS)

\* ord() of a letter or digit, int() of a character it converts
ord(c) ==
    IF InStr(c, LOWERCASE_CHARS) THEN 96 + IndexIn(c, LOWERCASE_CHARS)
    ELSE IF InStr(c, UPPERCASE_CHARS) THEN 64 + IndexIn(c, UPPERCASE_CHARS)
    ELSE 47 + IndexIn(c, DIGIT_CHARS)

int(c) == IndexIn(c, DIGIT_CHARS) - 1

\* s[i:j] with 1-based inclusive bounds
Slice(s, i, j) == SubSeq(s, i, j)

\* str.index(sub): 1-based position of the leftmost occurrence, 0 if none
FindSub(sub, s) ==
    LET hits == {i \in 1..(Len(s) - Len(sub) + 1) :
                     Slice(s, i, i + Len(sub) - 1) = sub}
    IN IF hits = {} THEN 0 ELSE CHOOSE i \in hits : \A k \in hits : i <= k

\* `sub in s`
Contains(sub, s) == FindSub(sub, s) # 0

\* `x in list`
InList(x, list) == \E k \in 1..Len(list) : list[k] = x

\* if x not in list: list.append(x)
AppendNew(list, x) == IF InList(x, list) THEN list ELSE Append(list, x)

Max(a, b) == IF a >= b THEN a ELSE b

RECURSIVE SumSeq(_)
SumSeq(s) == IF s = <<>> THEN 0 ELSE Head(s) + SumSeq(Tail(s))

\* type(e).__name__ of the exception int() raises
ExcValueError ==
    <<"V", "a", "l", "u", "e", "E", "r", "r", "o", "r">>

\* how a call ends: with a returned value or with an exception
Return(v) == [kind |-> "return", value |-> v, exc |-> <<>>]

Raise(e) == [kind |-> "raise", value |-> <<>>, exc |-> e]

(***************************************************************************)
(* analyzers.py: pattern detection                                         *)
(***************************************************************************)
\* config.KEYBOARD_PATTERNS
KEYBOARD_PATTERNS ==
    << <<"q", "w", "e", "r", "t", "y">>,
       <<"q", "w", "e", "r", "t", "z">>,
       <<"q", "w", "e", "r", "t", "i">>,
       <<"q", "w", "e", "r", "t", "y", "u">>,
       <<"a", "s", "d", "f", "g", "h">>,
       <<"a", "s", "d", "f", "g", "h", "j", "k", "l">>,
       <<"z", "x", "c", "v", "b", "n">>,
       <<"z", "x", "c", "v", "b", "n", "m">>,
       <<"1", "2", "3", "4", "5">>,
       <<"1", "2", "3", "4", "5", "6">>,
       <<"1", "2", "3", "4", "5", "6", "7">>,
       <<"1", "2", "3", "4", "5", "6", "7", "8">>,
       <<"0", "1", "2", "3", "4">>,
       <<"2", "3", "4", "5", "6", "7">>,
       <<"3", "4", "5", "6", "7", "8">>,
       <<"4", "5", "6", "7", "8", "9">>,
       <<"a", "b", "c", "d", "e", "f">>,
       <<"a", "b", "c", "d", "e", "f", "g">>,
       <<"p", "a", "s", "s", "w", "o", "r", "d">>,
       <<"p", "a", "s", "s", "w", "d">>,
       <<"a", "d", "m", "i", "n">>,
       <<"l", "e", "t", "m", "e", "i", "n">> >>

\* config.PATTERN_PENALTIES, and the insertion order of its keys
PATTERN_PENALTIES ==
    [sequential |-> 10, repeated |-> 10, common_year |-> 5,
     keyboard_pattern |-> 15]

PATTERN_TYPES == <<"sequential", "repeated", "common_year", "keyboard_pattern">>

\* the first loop reporting the lower-cased window instead of the original
RECURSIVE sequential_alpha_loop_lower(_, _, _, _)
sequential_alpha_loop_lower(pw, pl, i, found) ==
    IF i > Len(pl) - 2 THEN found
    ELSE LET char1 == pl[i]
             char2 == pl[i + 1]
             char3 == pl[i + 2]
             hit == /\ isalpha(char1) /\ isalpha(char2) /\ isalpha(char3)
                    /\ ord(char2) = ord(char1) + 1
                    /\ ord(char3) = ord(char2) + 1
         IN sequential_alpha_loop_lower(pw, pl, i + 1,
                IF hit THEN AppendNew(found, Slice(pl, i, i + 2)) ELSE found)

\* first loop of detect_sequential_chars: windows of three letters of the
\* lower-cased password pl, from window i on
RECURSIVE sequential_alpha_loop(_, _, _, _)
sequential_alpha_loop(pw, pl, i, found) ==
    IF i > Len(pl) - 2 THEN found
    ELSE LET char1 == pl[i]
             char2 == pl[i + 1]
             char3 == pl[i + 2]
             hit == /\ isalpha(char1) /\ isalpha(char2) /\ isalpha(char3)
                    /\ ord(char2) = ord(char1) + 1
                    /\ ord(char3) = ord(char2) + 1
         IN sequential_alpha_loop(pw, pl, i + 1,
                IF hit THEN AppendNew(found, Slice(pw, i, i + 2)) ELSE found)

\* second loop of detect_sequential_chars: windows of three digits; int()
\* is applied to char2 and char1, and to char3 when the first two follow
\* each other, and the loop ends with ValueError where int() raises
RECURSIVE sequential_digit_loop(_, _, _)
sequential_digit_loop(pw, i, found) ==
    IF i > Len(pw) - 2 THEN Return(found)
    ELSE LET char1 == pw[i]
             char2 == pw[i + 1]
             char3 == pw[i + 2]
             digits == isdigit(char1) /\ isdigit(char2) /\ isdigit(char3)
         IN IF ~digits THEN sequential_digit_loop(pw, i + 1, found)
            ELSE IF int_raises(char2) \/ int_raises(char1) THEN Raise(ExcValueError)
            ELSE IF int(char2) # int(char1) + 1
                 THEN sequential_digit_loop(pw, i + 1, found)
            ELSE IF int_raises(char3) THEN Raise(ExcValueError)
            ELSE IF int(char3) # int(char2) + 1
                 THEN sequential_digit_loop(pw, i + 1, found)
            ELSE sequential_digit_loop(pw, i + 1,
                     AppendNew(found, Slice(pw, i, i + 2)))

\* detect_sequential_chars: the list returned, or the exception raised
detect_sequential_chars(pw) ==
    sequential_digit_loop(pw, 1,
        sequential_alpha_loop(pw, lower(pw), 1, <<>>))

\* for match in matches: if pattern not in patterns_found: append
RECURSIVE CollectNew(_, _)
CollectNew(matches, found) ==
    IF matches = <<>> THEN found
    ELSE CollectNew(Tail(matches), AppendNew(found, Head(matches)))

\* end of the greedy match of \1* after the character at position i: the
\* last index of the run of characters equal to s[i]
RunEnd(s, i) ==
    CHOOSE j \in i..Len(s) :
        /\ \A k \in i..j : s[k] = s[i]
        /\ (j = Len(s) \/ s[j + 1] # s[i])

\* the scan with the pattern (.)\1{1,}: runs of two are matched as well
RECURSIVE repeated_finditer_two(_, _, _)
repeated_finditer_two(s, i, matches) ==
    IF i > Len(s) THEN matches
    ELSE LET j == RunEnd(s, i)
         IN IF s[i] # "\n" /\ j - i + 1 >= 2
            THEN repeated_finditer_two(s, j + 1, Append(matches, Slice(s, i, j)))
            ELSE repeated_finditer_two(s, i + 1, matches)

\* re.finditer(r'(.)\1{2,}', s): non-overlapping matches, left to right;
\* the dot matches any character except a newline
RECURSIVE repeated_finditer(_, _, _)
repeated_finditer(s, i, matches) ==
    IF i > Len(s) THEN matches
    ELSE LET j == RunEnd(s, i)
         IN IF s[i] # "\n" /\ j - i + 1 >= 3
            THEN repeated_finditer(s, j + 1, Append(matches, Slice(s, i, j)))
            ELSE repeated_finditer(s, i + 1, matches)

detect_repeated_chars(pw) == CollectNew(repeated_finditer(pw, 1, <<>>), <<>>)

\* r'(19[5-9]\d|20[0-2]\d)' matches at position i
YearAt(s, i) ==
    /\ i + 3 <= Len(s)
    /\ \/ /\ s[i] = "1" /\ s[i + 1] = "9"
          /\ s[i + 2] \in {"5", "6", "7", "8", "9"}
       \/ /\ s[i] = "2" /\ s[i + 1] = "0"
          /\ s[i + 2] \in {"0", "1", "2"}
    /\ isdecimal(s[i + 3])

\* a scan that resumes one character after the start of a match, so that
\* overlapping matches are found as well
RECURSIVE year_finditer_overlapping(_, _, _)
year_finditer_overlapping(s, i, matches) ==
    IF i > Len(s) THEN matches
    ELSE IF YearAt(s, i)
         THEN year_finditer_overlapping(s, i + 1, Append(matches, Slice(s, i, i + 3)))
         ELSE year_finditer_overlapping(s, i + 1, matches)

\* re.finditer(year_pattern, s): non-overlapping matches, left to right
RECURSIVE year_finditer(_, _, _)
year_finditer(s, i, matches) ==
    IF i > Len(s) THEN matches
    ELSE IF YearAt(s, i)
         THEN year_finditer(s, i + 4, Append(matches, Slice(s, i, i + 3)))
         ELSE year_finditer(s, i + 1, matches)

detect_common_years(pw) == CollectNew(year_finditer(pw, 1, <<>>), <<>>)

\* the loop reporting the catalogue entry instead of the span of the password
RECURSIVE keyboard_loop_entry(_, _, _, _)
keyboard_loop_entry(pw, pl, k, found) ==
    IF k > Len(KEYBOARD_PATTERNS) THEN found
    ELSE LET pattern == KEYBOARD_PATTERNS[k]
         IN keyboard_loop_entry(pw, pl, k + 1,
                IF Contains(pattern, pl) THEN AppendNew(found, pattern)
                ELSE found)

\* the loop of detect_keyboard_patterns over the catalogue, from entry k on
RECURSIVE keyboard_loop(_, _, _, _)
keyboard_loop(pw, pl, k, found) ==
    IF k > Len(KEYBOARD_PATTERNS) THEN found
    ELSE LET pattern == KEYBOARD_PATTERNS[k]
             start_idx == FindSub(pattern, pl)
             original_pattern == Slice(pw, start_idx, start_idx + Len(pattern) - 1)
         IN keyboard_loop(pw, pl, k + 1,
                IF Contains(pattern, pl) THEN AppendNew(found, original_pattern)
                ELSE found)

detect_keyboard_patterns(pw) == keyboard_loop(pw, lower(pw), 1, <<>>)

\* detect_weak_patterns with the penalty charged per instance
RECURSIVE weak_penalty_loop_per_instance(_, _, _)
weak_penalty_loop_per_instance(patterns, k, acc) ==
    IF k > Len(PATTERN_TYPES) THEN acc
    ELSE LET pattern_type == PATTERN_TYPES[k]
             instances == patterns[pattern_type]
         IN weak_penalty_loop_per_instance(patterns, k + 1,
                IF instances # <<>>
                THEN [acc EXCEPT !.total_penalty =
                                     @ + Len(instances) * PATTERN_PENALTIES[pattern_type],
                                 !.has_patterns = TRUE]
                ELSE acc)

\* the penalty loop of detect_weak_patterns over results['patterns'].items()
RECURSIVE weak_penalty_loop(_, _, _)
weak_penalty_loop(patterns, k, acc) ==
    IF k > Len(PATTERN_TYPES) THEN acc
    ELSE LET pattern_type == PATTERN_TYPES[k]
             instances == patterns[pattern_type]
         IN weak_penalty_loop(patterns, k + 1,
                IF instances # <<>>
                THEN [acc EXCEPT !.total_penalty = @ + PATTERN_PENALTIES[pattern_type],
                                 !.has_patterns = TRUE]
                ELSE acc)

\* detect_weak_patterns: the dict returned, or the exception that
\* detect_sequential_chars raised
detect_weak_patterns(pw) ==
    LET sequential == detect_sequential_chars(pw)
        patterns == [sequential |-> sequential.value,
                     repeated |-> detect_repeated_chars(pw),
                     common_year |-> detect_common_years(pw),
                     keyboard_pattern |-> detect_keyboard_patterns(pw)]
    IN IF sequential.kind = "raise" THEN sequential
       ELSE Return(weak_penalty_loop(patterns, 1,
                [patterns |-> patterns, total_penalty |-> 0,
                 has_patterns |-> FALSE]))

(***************************************************************************)
(* password_checker.py: the same-named functions of the single-file        *)
(* program, with its own constants                                         *)
(***************************************************************************)
\* password_checker.KEYBOARD_PATTERNS
pc_KEYBOARD_PATTERNS ==
    << <<"q", "w", "e", "r", "t", "y">>,
       <<"a", "s", "d", "f", "g", "h">>,
       <<"z", "x", "c", "v", "b", "n">>,
       <<"q", "w", "e", "r", "t", "z">>,
       <<"a", "s", "d", "f", "g", "h", "j", "k", "l">>,
       <<"1", "2", "3", "4", "5">>,
       <<"1", "2", "3", "4", "5", "6">>,
       <<"1", "2", "3", "4", "5", "6", "7">>,
       <<"a", "b", "c", "d", "e", "f">>,
       <<"p", "a", "s", "s", "w", "o", "r", "d">>,
       <<"a", "d", "m", "i", "n">> >>

\* password_checker.PATTERN_PENALTIES
pc_PATTERN_PENALTIES ==
    [sequential |-> 10, repeated |-> 10, common_year |-> 5,
     keyboard_pattern |-> 15]

\* first loop of pc_detect_sequential_chars: windows of three letters of the
\* lower-cased password pl, from window i on
RECURSIVE pc_sequential_alpha_loop(_, _, _, _)
pc_sequential_alpha_loop(pw, pl, i, found) ==
    IF i > Len(pl) - 2 THEN found
    ELSE LET char1 == pl[i]
             char2 == pl[i + 1]
             char3 == pl[i + 2]
             hit == /\ isalpha(char1) /\ isalpha(char2) /\ isalpha(char3)
                    /\ ord(char2) = ord(char1) + 1
                    /\ ord(char3) = ord(char2) + 1
         IN pc_sequential_alpha_loop(pw, pl, i + 1,
                IF hit THEN AppendNew(found, Slice(pw, i, i + 2)) ELSE found)

\* second loop of pc_detect_sequential_chars: windows of three digits
RECURSIVE pc_sequential_digit_loop(_, _, _)
pc_sequential_digit_loop(pw, i, found) ==
    IF i > Len(pw) - 2 THEN found
    ELSE LET char1 == pw[i]
             char2 == pw[i + 1]
             char3 == pw[i + 2]
             hit == /\ isdigit(char1) /\ isdigit(char2) /\ isdigit(char3)
                    /\ int(char2) = int(char1) + 1
                    /\ int(char3) = int(char2) + 1
         IN pc_sequential_digit_loop(pw, i + 1,
                IF hit THEN AppendNew(found, Slice(pw, i, i + 2)) ELSE found)

pc_detect_sequential_chars(pw) ==
    pc_sequential_digit_loop(pw, 1,
        pc_sequential_alpha_loop(pw, lower(pw), 1, <<>>))

\* re.finditer(r'(.)\1{2,}', s): non-overlapping matches, left to right
RECURSIVE pc_repeated_finditer(_, _, _)
pc_repeated_finditer(s, i, matches) ==
    IF i > Len(s) THEN matches
    ELSE LET j == RunEnd(s, i)
         IN IF s[i] # "\n" /\ j - i + 1 >= 3
            THEN pc_repeated_finditer(s, j + 1, Append(matches, Slice(s, i, j)))
            ELSE pc_repeated_finditer(s, i + 1, matches)

pc_detect_repeated_chars(pw) == CollectNew(pc_repeated_finditer(pw, 1, <<>>), <<>>)

\* re.finditer(year_pattern, s): non-overlapping matches, left to right
RECURSIVE pc_year_finditer(_, _, _)
pc_year_finditer(s, i, matches) ==
    IF i > Len(s) THEN matches
    ELSE IF YearAt(s, i)
         THEN pc_year_finditer(s, i + 4, Append(matches, Slice(s, i, i + 3)))
         ELSE pc_year_finditer(s, i + 1, matches)

pc_detect_common_years(pw) == CollectNew(pc_year_finditer(pw, 1, <<>>), <<>>)

\* the loop of pc_detect_keyboard_patterns over the catalogue, from entry k on
RECURSIVE pc_keyboard_loop(_, _, _, _)
pc_keyboard_loop(pw, pl, k, found) ==
    IF k > Len(pc_KEYBOARD_PATTERNS) THEN found
    ELSE LET pattern == pc_KEYBOARD_PATTERNS[k]
             start_idx == FindSub(pattern, pl)
             original_pattern == Slice(pw, start_idx, start_idx + Len(pattern) - 1)
         IN pc_keyboard_loop(pw, pl, k + 1,
                IF Contains(pattern, pl) THEN AppendNew(found, original_pattern)
                ELSE found)

pc_detect_keyboard_patterns(pw) == pc_keyboard_loop(pw, lower(pw), 1, <<>>)

\* password_checker.detect_weak_patterns with the penalty charged per instance
RECURSIVE pc_weak_penalty_loop_per_instance(_, _, _)
pc_weak_penalty_loop_per_instance(patterns, k, acc) ==
    IF k > Len(PATTERN_TYPES) THEN acc
    ELSE LET pattern_type == PATTERN_TYPES[k]
             instances == patterns[pattern_type]
         IN pc_weak_penalty_loop_per_instance(patterns, k + 1,
                IF instances # <<>>
                THEN [acc EXCEPT !.total_penalty =
                                     @ + Len(instances) * pc_PATTERN_PENALTIES[pattern_type],
                                 !.has_patterns = TRUE]
                ELSE acc)

\* the penalty loop of pc_detect_weak_patterns over results['patterns'].items()
RECURSIVE pc_weak_penalty_loop(_, _, _)
pc_weak_penalty_loop(patterns, k, acc) ==
    IF k > Len(PATTERN_TYPES) THEN acc
    ELSE LET pattern_type == PATTERN_TYPES[k]
             instances == patterns[pattern_type]
         IN pc_weak_penalty_loop(patterns, k + 1,
                IF instances # <<>>
                THEN [acc EXCEPT !.total_penalty = @ + pc_PATTERN_PENALTIES[pattern_type],
                                 !.has_patterns = TRUE]
                ELSE acc)

pc_detect_weak_patterns(pw) ==
    LET patterns == [sequential |-> pc_detect_sequential_chars(pw),
                     repeated |-> pc_detect_repeated_chars(pw),
                     common_year |-> pc_detect_common_years(pw),
                     keyboard_pattern |-> pc_detect_keyboard_patterns(pw)]
    IN pc_weak_penalty_loop(patterns, 1,
           [patterns |-> patterns, total_penalty |-> 0, has_patterns |-> FALSE])

(***************************************************************************)
(* password_checker.py: entropy, validators, analyze_password              *)
(***************************************************************************)
\* math.log2(n) for the pool sizes that can occur, in units of 10^-9 bit,
\* split in two so that every product stays below 2^31:
\* log2(n) * 10^9 = LOG2_HI[n] * 10^5 + LOG2_LO[n]
LOG2_HI ==
    10 :> 33219 @@ 26 :> 47004 @@ 32 :> 50000 @@ 36 :> 51699 @@ 42 :> 53923
       @@ 52 :> 57004 @@ 58 :> 58579 @@ 62 :> 59541 @@ 68 :> 60874
       @@ 84 :> 63923 @@ 94 :> 65545

LOG2_LO ==
    10 :> 28095 @@ 26 :> 39718 @@ 32 :> 0 @@ 36 :> 25001 @@ 42 :> 17423
       @@ 52 :> 39718 @@ 58 :> 80995 @@ 62 :> 96310 @@ 68 :> 62841
       @@ 84 :> 17423 @@ 94 :> 88852

\* round(length * math.log2(pool_size), 2), in hundredths of a bit
RoundedEntropy(length, pool_size) ==
    (length * LOG2_HI[pool_size]
        + ((length * LOG2_LO[pool_size] + 5000000) \div 100000)) \div 100

\* any(c in chars for c in password)
AnyIn(pw, chars) == \E i \in 1..Len(pw) : InStr(pw[i], chars)

\* sum(1 for char in password if char in chars)
CountIn(pw, chars) == Cardinality({i \in 1..Len(pw) : InStr(pw[i], chars)})

\* calculate_entropy, in hundredths of a bit (0.0 is 0)
pc_calculate_entropy(pw) ==
    IF pw = <<>> THEN 0
    ELSE LET pool_size ==
                 (IF AnyIn(pw, LOWERCASE_CHARS) THEN 26 ELSE 0)
                 + (IF AnyIn(pw, UPPERCASE_CHARS) THEN 26 ELSE 0)
                 + (IF AnyIn(pw, DIGIT_CHARS) THEN 10 ELSE 0)
                 + (IF AnyIn(pw, SPECIAL_CHARS) THEN 32 ELSE 0)
         IN IF pool_size = 0 THEN 0
            ELSE RoundedEntropy(Len(pw), pool_size)

\* get_entropy_rating; the argument is in hundredths of a bit
pc_get_entropy_rating(entropy) ==
    IF entropy < 2800 THEN <<"Very Low", "RED">>
    ELSE IF entropy < 3600 THEN <<"Low", "RED">>
    ELSE IF entropy < 6000 THEN <<"Moderate", "YELLOW">>
    ELSE IF entropy < 8000 THEN <<"High", "GREEN">>
    ELSE <<"Very High", "GREEN">>

pc_MIN_PASSWORD_LENGTH == 8

pc_RECOMMENDED_PASSWORD_LENGTH == 12

\* an f-string: the template and the values formatted into it
Message(fmt, args) == [fmt |-> fmt, args |-> args]

\* check_password_length awarding 40 points to a length of 16 or more
pc_check_password_length_40(pw) ==
    LET length == Len(pw)
    IN IF length < pc_MIN_PASSWORD_LENGTH
       THEN <<FALSE, 0, Message("Password too short", <<length>>)>>
       ELSE IF length < pc_RECOMMENDED_PASSWORD_LENGTH
       THEN <<TRUE, 15, Message("Password length acceptable", <<length>>)>>
       ELSE IF length < 16
       THEN <<TRUE, 25, Message("Password length good", <<length>>)>>
       ELSE <<TRUE, 40, Message("Password length excellent", <<length>>)>>

pc_check_password_length(pw) ==
    LET length == Len(pw)
    IN IF length < pc_MIN_PASSWORD_LENGTH
       THEN <<FALSE, 0,
              Message("Password too short: {length} characters (minimum: {MIN_PASSWORD_LENGTH})",
                      <<length, pc_MIN_PASSWORD_LENGTH>>)>>
       ELSE IF length < pc_RECOMMENDED_PASSWORD_LENGTH
       THEN <<TRUE, 15,
              Message("Password length acceptable: {length} characters (recommended: {RECOMMENDED_PASSWORD_LENGTH}+)",
                      <<length, pc_RECOMMENDED_PASSWORD_LENGTH>>)>>
       ELSE IF length < 16
       THEN <<TRUE, 25, Message("Password length good: {length} characters", <<length>>)>>
       ELSE <<TRUE, 30, Message("Password length excellent: {length} characters", <<length>>)>>

pc_check_uppercase(pw) ==
    IF AnyIn(pw, UPPERCASE_CHARS)
    THEN <<TRUE, 15, Message("Contains uppercase letters ({count} found)",
                             <<CountIn(pw, UPPERCASE_CHARS)>>)>>
    ELSE <<FALSE, 0, Message("Missing uppercase letters (A-Z)", <<>>)>>

\* check_lowercase asking that all characters be lowercase letters, which
\* holds of the empty password
pc_check_lowercase_all(pw) ==
    IF \A k \in 1..Len(pw) : InStr(pw[k], LOWERCASE_CHARS)
    THEN <<TRUE, 15, Message("Contains lowercase letters ({count} found)",
                             <<CountIn(pw, LOWERCASE_CHARS)>>)>>
    ELSE <<FALSE, 0, Message("Missing lowercase letters (a-z)", <<>>)>>

pc_check_lowercase(pw) ==
    IF AnyIn(pw, LOWERCASE_CHARS)
    THEN <<TRUE, 15, Message("Contains lowercase letters ({count} found)",
                             <<CountIn(pw, LOWERCASE_CHARS)>>)>>
    ELSE <<FALSE, 0, Message("Missing lowercase letters (a-z)", <<>>)>>

pc_check_digits(pw) ==
    IF AnyIn(pw, DIGIT_CHARS)
    THEN <<TRUE, 20, Message("Contains numeric digits ({count} found)",
                             <<CountIn(pw, DIGIT_CHARS)>>)>>
    ELSE <<FALSE, 0, Message("Missing numeric digits (0-9)", <<>>)>>

pc_check_special_characters(pw) ==
    IF AnyIn(pw, SPECIAL_CHARS)
    THEN <<TRUE, 20, Message("Contains special characters ({count} found)",
                             <<CountIn(pw, SPECIAL_CHARS)>>)>>
    ELSE <<FALSE, 0, Message("Missing special characters ({SPECIAL_CHARS[:10]}...)", <<>>)>>

\* password_checker.SCORE_THRESHOLDS
pc_SCORE_THRESHOLDS ==
    [very_weak |-> 20, weak |-> 40, moderate |-> 60, strong |-> 80,
     very_strong |-> 100]

pc_get_strength_category(score0) ==
    LET score == Max(0, score0)
    IN IF score < pc_SCORE_THRESHOLDS.very_weak THEN <<"VERY WEAK", "RED">>
       ELSE IF score < pc_SCORE_THRESHOLDS.weak THEN <<"WEAK", "RED">>
       ELSE IF score < pc_SCORE_THRESHOLDS.moderate THEN <<"MODERATE", "YELLOW">>
       ELSE IF score < pc_SCORE_THRESHOLDS.strong THEN <<"STRONG", "GREEN">>
       ELSE <<"VERY STRONG", "GREEN">>

\* pattern_type.replace('_', ' ').title() on the four keys
PatternName ==
    [sequential |-> "Sequential", repeated |-> "Repeated",
     common_year |-> "Common Year", keyboard_pattern |-> "Keyboard Pattern"]

\* the loop of analyze_password over the five checks
RECURSIVE pc_checks_loop(_, _, _)
pc_checks_loop(checks, k, res) ==
    IF k > Len(checks) THEN res
    ELSE LET check_name == checks[k][1]
             passed == checks[k][2][1]
             score == checks[k][2][2]
             message == checks[k][2][3]
         IN pc_checks_loop(checks, k + 1,
                [res EXCEPT
                    !.checks = Append(@, [name |-> check_name, passed |-> passed,
                                          score |-> score, message |-> message]),
                    !.base_score = @ + score,
                    !.passed_all_checks = IF passed THEN @ ELSE FALSE])

\* the loop of analyze_password over pattern_results['patterns'].items()
RECURSIVE pc_penalties_loop(_, _, _)
pc_penalties_loop(patterns, k, penalties) ==
    IF k > Len(PATTERN_TYPES) THEN penalties
    ELSE LET pattern_type == PATTERN_TYPES[k]
             instances == patterns[pattern_type]
         IN pc_penalties_loop(patterns, k + 1,
                IF instances # <<>>
                THEN Append(penalties,
                            [type |-> PatternName[pattern_type],
                             instances |-> instances,
                             penalty |-> pc_PATTERN_PENALTIES[pattern_type]])
                ELSE penalties)

\* the entropy step of analyze_password also crediting the base score with
\* five points for an entropy of 60 bits or more
pc_entropy_step_bonus(pw, res) ==
    LET entropy == pc_calculate_entropy(pw)
        rating == pc_get_entropy_rating(entropy)
    IN [entropy_color |-> rating[2]] @@
       [res EXCEPT !.entropy = entropy, !.entropy_rating = rating[1],
                   !.base_score = IF entropy >= 6000 THEN @ + 5 ELSE @]

\* the entropy step of analyze_password: entropy, entropy_rating and
\* entropy_color are set in the result
pc_entropy_step(pw, res) ==
    LET entropy == pc_calculate_entropy(pw)
        rating == pc_get_entropy_rating(entropy)
    IN [entropy_color |-> rating[2]] @@
       [res EXCEPT !.entropy = entropy, !.entropy_rating = rating[1]]

analyze_password(pw) ==
    LET init == [checks |-> <<>>, base_score |-> 0, penalties |-> <<>>,
                 total_penalty |-> 0, final_score |-> 0, entropy |-> 0,
                 entropy_rating |-> "", strength |-> "", color |-> "",
                 passed_all_checks |-> TRUE, has_weak_patterns |-> FALSE]
        checks == << <<"Length", pc_check_password_length(pw)>>,
                     <<"Uppercase", pc_check_uppercase(pw)>>,
                     <<"Lowercase", pc_check_lowercase(pw)>>,
                     <<"Digits", pc_check_digits(pw)>>,
                     <<"Special Chars", pc_check_special_characters(pw)>> >>
        r1 == pc_checks_loop(checks, 1, init)
        r2 == pc_entropy_step(pw, r1)
        pattern_results == pc_detect_weak_patterns(pw)
        r3 == IF pattern_results.has_patterns
              THEN [r2 EXCEPT
                       !.has_weak_patterns = TRUE,
                       !.total_penalty = pattern_results.total_penalty,
                       !.penalties = pc_penalties_loop(pattern_results.patterns, 1, @)]
              ELSE r2
        final_score == Max(0, r3.base_score - r3.total_penalty)
        category == pc_get_strength_category(final_score)
    IN [r3 EXCEPT !.final_score = final_score,
                  !.strength = category[1],
                  !.color = category[2]]

(***************************************************************************)
(* config.py, validators.py and the entropy functions of analyzers.py      *)
(***************************************************************************)
MIN_PASSWORD_LENGTH == 8

RECOMMENDED_PASSWORD_LENGTH == 12

\* config.SCORE_WEIGHTS
SCORE_WEIGHTS ==
    [length |-> 30, uppercase |-> 15, lowercase |-> 15, digits |-> 20,
     special |-> 20]

\* config.SCORE_THRESHOLDS
SCORE_THRESHOLDS ==
    [very_weak |-> 20, weak |-> 40, moderate |-> 60, strong |-> 80,
     very_strong |-> 100]

\* config.ENTROPY_THRESHOLDS, in hundredths of a bit
ENTROPY_THRESHOLDS ==
    [very_low |-> 2800, low |-> 3600, moderate |-> 6000, high |-> 8000,
     very_high |-> 10000]

\* check_password_length taking a length equal to the recommended one for
\* a length below it
check_password_length_le(pw) ==
    LET length == Len(pw)
    IN IF length < MIN_PASSWORD_LENGTH
       THEN <<FALSE, 0, Message("Password too short", <<length>>)>>
       ELSE IF length <= RECOMMENDED_PASSWORD_LENGTH
       THEN <<TRUE, 15, Message("Password length acceptable", <<length>>)>>
       ELSE IF length < 16
       THEN <<TRUE, 25, Message("Password length good", <<length>>)>>
       ELSE <<TRUE, 30, Message("Password length excellent", <<length>>)>>

\* validators.check_password_length
check_password_length(pw) ==
    LET length == Len(pw)
    IN IF length < MIN_PASSWORD_LENGTH
       THEN <<FALSE, 0,
              Message("Password too short: {length} characters (minimum: {MIN_PASSWORD_LENGTH})",
                      <<length, MIN_PASSWORD_LENGTH>>)>>
       ELSE IF length < RECOMMENDED_PASSWORD_LENGTH
       THEN <<TRUE, 15,
              Message("Password length acceptable: {length} characters (recommended: {RECOMMENDED_PASSWORD_LENGTH}+)",
                      <<length, RECOMMENDED_PASSWORD_LENGTH>>)>>
       ELSE IF length < 16
       THEN <<TRUE, 25, Message("Password length good: {length} characters", <<length>>)>>
       ELSE <<TRUE, 30, Message("Password length excellent: {length} characters", <<length>>)>>

\* validators.check_uppercase
check_uppercase(pw) ==
    IF AnyIn(pw, UPPERCASE_CHARS)
    THEN <<TRUE, 15, Message("Contains uppercase letters ({count} found)",
                             <<CountIn(pw, UPPERCASE_CHARS)>>)>>
    ELSE <<FALSE, 0, Message("Missing uppercase letters (A-Z)", <<>>)>>

\* validators.check_lowercase
check_lowercase(pw) ==
    IF AnyIn(pw, LOWERCASE_CHARS)
    THEN <<TRUE, 15, Message("Contains lowercase letters ({count} found)",
                             <<CountIn(pw, LOWERCASE_CHARS)>>)>>
    ELSE <<FALSE, 0, Message("Missing lowercase letters (a-z)", <<>>)>>

\* check_digits awarding the weight of a letter class
check_digits_15(pw) ==
    IF AnyIn(pw, DIGIT_CHARS)
    THEN <<TRUE, 15, Message("Contains numeric digits ({count} found)",
                             <<CountIn(pw, DIGIT_CHARS)>>)>>
    ELSE <<FALSE, 0, Message("Missing numeric digits (0-9)", <<>>)>>

\* validators.check_digits
check_digits(pw) ==
    IF AnyIn(pw, DIGIT_CHARS)
    THEN <<TRUE, 20, Message("Contains numeric digits ({count} found)",
                             <<CountIn(pw, DIGIT_CHARS)>>)>>
    ELSE <<FALSE, 0, Message("Missing numeric digits (0-9)", <<>>)>>

\* validators.check_special_characters
check_special_characters(pw) ==
    IF AnyIn(pw, SPECIAL_CHARS)
    THEN <<TRUE, 20, Message("Contains special characters ({count} found)",
                             <<CountIn(pw, SPECIAL_CHARS)>>)>>
    ELSE <<FALSE, 0, Message("Missing special characters ({SPECIAL_CHARS[:10]}...)", <<>>)>>

\* get_strength_category with inclusive upper limits
get_strength_category_le(score) ==
    LET normalized_score == Max(0, score)
    IN IF normalized_score <= SCORE_THRESHOLDS.very_weak THEN <<"VERY WEAK", "RED">>
       ELSE IF normalized_score <= SCORE_THRESHOLDS.weak THEN <<"WEAK", "RED">>
       ELSE IF normalized_score <= SCORE_THRESHOLDS.moderate THEN <<"MODERATE", "YELLOW">>
       ELSE IF normalized_score <= SCORE_THRESHOLDS.strong THEN <<"STRONG", "GREEN">>
       ELSE <<"VERY STRONG", "GREEN">>

\* validators.get_strength_category
get_strength_category(score) ==
    LET normalized_score == Max(0, score)
    IN IF normalized_score < SCORE_THRESHOLDS.very_weak THEN <<"VERY WEAK", "RED">>
       ELSE IF normalized_score < SCORE_THRESHOLDS.weak THEN <<"WEAK", "RED">>
       ELSE IF normalized_score < SCORE_THRESHOLDS.moderate THEN <<"MODERATE", "YELLOW">>
       ELSE IF normalized_score < SCORE_THRESHOLDS.strong THEN <<"STRONG", "GREEN">>
       ELSE <<"VERY STRONG", "GREEN">>

\* calculate_entropy that leaves the uppercase letters out of the pool
calculate_entropy_no_upper(pw) ==
    IF pw = <<>> THEN 0
    ELSE LET pool_size ==
                 (IF AnyIn(pw, LOWERCASE_CHARS) THEN 26 ELSE 0)
                 + (IF AnyIn(pw, DIGIT_CHARS) THEN 10 ELSE 0)
                 + (IF AnyIn(pw, SPECIAL_CHARS) THEN 32 ELSE 0)
         IN IF pool_size = 0 THEN 0
            ELSE RoundedEntropy(Len(pw), pool_size)

\* analyzers.calculate_entropy, in hundredths of a bit (0.0 is 0)
calculate_entropy(pw) ==
    IF pw = <<>> THEN 0
    ELSE LET pool_size ==
                 (IF AnyIn(pw, LOWERCASE_CHARS) THEN 26 ELSE 0)
                 + (IF AnyIn(pw, UPPERCASE_CHARS) THEN 26 ELSE 0)
                 + (IF AnyIn(pw, DIGIT_CHARS) THEN 10 ELSE 0)
                 + (IF AnyIn(pw, SPECIAL_CHARS) THEN 32 ELSE 0)
         IN IF pool_size = 0 THEN 0
            ELSE RoundedEntropy(Len(pw), pool_size)

\* get_entropy_rating with inclusive upper limits
get_entropy_rating_le(entropy) ==
    IF entropy <= ENTROPY_THRESHOLDS.very_low THEN <<"Very Low", "RED">>
    ELSE IF entropy <= ENTROPY_THRESHOLDS.low THEN <<"Low", "RED">>
    ELSE IF entropy <= ENTROPY_THRESHOLDS.moderate THEN <<"Moderate", "YELLOW">>
    ELSE IF entropy <= ENTROPY_THRESHOLDS.high THEN <<"High", "GREEN">>
    ELSE <<"Very High", "GREEN">>

\* analyzers.get_entropy_rating; the argument is in hundredths of a bit
get_entropy_rating(entropy) ==
    IF entropy < ENTROPY_THRESHOLDS.very_low THEN <<"Very Low", "RED">>
    ELSE IF entropy < ENTROPY_THRESHOLDS.low THEN <<"Low", "RED">>
    ELSE IF entropy < ENTROPY_THRESHOLDS.moderate THEN <<"Moderate", "YELLOW">>
    ELSE IF entropy < ENTROPY_THRESHOLDS.high THEN <<"High", "GREEN">>
    ELSE <<"Very High", "GREEN">>

(***************************************************************************)
(* checker.py: the common-password check                                    *)
(***************************************************************************)
WHITESPACE == {" ", "\n"}

\* str.strip()
RECURSIVE lstrip(_)
lstrip(s) == IF s # <<>> /\ Head(s) \in WHITESPACE THEN lstrip(Tail(s)) ELSE s

RECURSIVE rstrip(_)
rstrip(s) ==
    IF s # <<>> /\ s[Len(s)] \in WHITESPACE
    THEN rstrip(SubSeq(s, 1, Len(s) - 1))
    ELSE s

strip(s) == rstrip(lstrip(s))

\* load_common_passwords falling back on a built-in list when the source
\* is missing or unreadable
load_common_passwords_fallback(f) ==
    IF f.state # "ok"
    THEN [passwords |-> {<<"p", "a", "s", "s", "w", "o", "r", "d">>}, warned |-> TRUE]
    ELSE [passwords |-> {lower(strip(f.lines[k])) :
                             k \in {n \in 1..Len(f.lines) : strip(f.lines[n]) # <<>>}},
          warned |-> FALSE]

\* load_common_passwords without the lower-casing of the lines
load_common_passwords_no_lower(f) ==
    IF f.state # "ok"
    THEN [passwords |-> {}, warned |-> TRUE]
    ELSE [passwords |-> {strip(f.lines[k]) :
                             k \in {n \in 1..Len(f.lines) : strip(f.lines[n]) # <<>>}},
          warned |-> FALSE]

\* load_common_passwords on the word-list source f: the set returned and
\* whether a warning was printed
load_common_passwords(f) ==
    IF f.state = "missing"
    THEN [passwords |-> {}, warned |-> TRUE]
    ELSE IF f.state = "unreadable"
    THEN [passwords |-> {}, warned |-> TRUE]
    ELSE [passwords |-> {lower(strip(f.lines[k])) :
                             k \in {n \in 1..Len(f.lines) : strip(f.lines[n]) # <<>>}},
          warned |-> FALSE]

\* check_common_password(pw) with the cache c and the source f: the tuple
\* returned, the cache afterwards and the warnings printed
check_common_password(pw, c, f) ==
    LET loaded == load_common_passwords(f)
        c2 == IF c = <<>> THEN <<loaded.passwords>> ELSE c
        warned == IF c = <<>> /\ loaded.warned THEN 1 ELSE 0
    IN [ret |-> IF lower(pw) \in c2[1]
                THEN <<TRUE, "Password found in common passwords database - HIGH RISK">>
                ELSE <<FALSE, "Password not found in common passwords database">>,
        cache |-> c2,
        warned |-> warned]

(***************************************************************************)
(* checker.py: the breach check                                            *)
(***************************************************************************)
UpperChar(c) ==
    IF InStr(c, LOWERCASE_CHARS)
    THEN UPPERCASE_CHARS[IndexIn(c, LOWERCASE_CHARS)]
    ELSE c

UpperTable == [c \in CharUniverse |-> UpperChar(c)]

\* str.upper()
upper(s) == [i \in 1..Len(s) |-> UpperTable[s[i]]]

\* the passwords whose SHA-1 digest is tabulated below; " 2024 " and
\* "1231999aaa" have digests with the same first five characters
PwnedPasswords ==
    { <<"p", "a", "s", "s", "w", "o", "r", "d">>,
      <<"P", "@", "s", "s", "w", "0", "r", "d">>,
      <<"1", "2", "3", "4", "5">>,
      <<" ", "2", "0", "2", "4", " ">>,
      <<"1", "2", "3", "1", "9", "9", "9", "a", "a", "a">> }

\* hashlib.sha1(pw.encode('utf-8')).hexdigest(): the digests of PwnedPasswords
sha1_hexdigest(pw) ==
    CASE pw = <<"p", "a", "s", "s", "w", "o", "r", "d">> ->
            <<"5", "b", "a", "a", "6", "1", "e", "4", "c", "9", "b", "9",
              "3", "f", "3", "f", "0", "6", "8", "2", "2", "5", "0", "b",
              "6", "c", "f", "8", "3", "3", "1", "b", "7", "e", "e", "6",
              "8", "f", "d", "8">>
      [] pw = <<"P", "@", "s", "s", "w", "0", "r", "d">> ->
            <<"2", "1", "b", "d", "1", "2", "d", "c", "1", "8", "3", "f",
              "7", "4", "0", "e", "e", "7", "6", "f", "2", "7", "b", "7",
              "8", "e", "b", "3", "9", "c", "8", "a", "d", "9", "7", "2",
              "a", "7", "5", "7">>
      [] pw = <<"1", "2", "3", "4", "5">> ->
            <<"8", "c", "b", "2", "2", "3", "7", "d", "0", "6", "7", "9",
              "c", "a", "8", "8", "d", "b", "6", "4", "6", "4", "e", "a",
              "c", "6", "0", "d", "a", "9", "6", "3", "4", "5", "5", "1",
              "3", "9", "6", "4">>
      [] pw = <<" ", "2", "0", "2", "4", " ">> ->
            <<"f", "b", "9", "2", "b", "b", "2", "9", "d", "7", "e", "a",
              "c", "9", "5", "9", "f", "9", "f", "f", "1", "b", "f", "1",
              "5", "8", "5", "7", "6", "b", "1", "b", "d", "0", "8", "c",
              "e", "4", "6", "3">>
      [] pw = <<"1", "2", "3", "1", "9", "9", "9", "a", "a", "a">> ->
            <<"f", "b", "9", "2", "b", "f", "3", "2", "8", "6", "0", "1",
              "7", "4", "7", "1", "e", "a", "2", "1", "c", "5", "4", "d",
              "4", "6", "b", "5", "b", "3", "1", "f", "e", "4", "9", "e",
              "0", "a", "6", "2">>

\* the base URL and the timeout that checker.py imports from config
HIBP_API_URL == "HIBP_API_URL"

API_TIMEOUT == "API_TIMEOUT"

\* str(n) of a natural number
RECURSIVE Digits(_)
Digits(n) ==
    IF n < 10 THEN <<DIGIT_CHARS[n + 1]>>
    ELSE Append(Digits(n \div 10), DIGIT_CHARS[(n % 10) + 1])

\* f"{n:,}": the digits with a comma before every group of three
RECURSIVE GroupThousands(_)
GroupThousands(d) ==
    IF Len(d) <= 3 THEN d
    ELSE GroupThousands(SubSeq(d, 1, Len(d) - 3)) \o <<",">>
            \o SubSeq(d, Len(d) - 2, Len(d))

FormatThousands(n) == GroupThousands(Digits(n))

\* line.split(':'): the pieces between the colons
RECURSIVE SplitColon(_, _, _)
SplitColon(line, i, piece) ==
    IF i > Len(line) THEN <<piece>>
    ELSE IF line[i] = ":" THEN <<piece>> \o SplitColon(line, i + 1, <<>>)
    ELSE SplitColon(line, i + 1, Append(piece, line[i]))

\* int(count) for a string of ASCII digits; any other string of the model
\* holds a character that makes int() raise ValueError
IsDecimal(s) == s # <<>> /\ \A i \in 1..Len(s) : isdigit(s[i])

RECURSIVE ParseInt(_)
ParseInt(s) ==
    IF s = <<>> THEN 0 ELSE 10 * ParseInt(SubSeq(s, 1, Len(s) - 1)) + int(s[Len(s)])

\* the literal pieces of the messages of check_pwned_password
MSG_NOT_FOUND ==
    <<"P", "a", "s", "s", "w", "o", "r", "d", " ", "n", "o", "t", " ", "f",
      "o", "u", "n", "d", " ", "i", "n", " ", "k", "n", "o", "w", "n", " ",
      "d", "a", "t", "a", " ", "b", "r", "e", "a", "c", "h", "e", "s">>

MSG_TIMED_OUT ==
    <<"B", "r", "e", "a", "c", "h", " ", "c", "h", "e", "c", "k", " ", "t",
      "i", "m", "e", "d", " ", "o", "u", "t", " ", "-", " ", "s", "k", "i",
      "p", "p", "i", "n", "g">>

MSG_STATUS_HEAD ==
    <<"A", "P", "I", " ", "c", "h", "e", "c", "k", " ", "u", "n", "a", "v",
      "a", "i", "l", "a", "b", "l", "e", " ", "(", "s", "t", "a", "t", "u",
      "s", ":", " ">>

MSG_UNAVAILABLE_HEAD ==
    <<"B", "r", "e", "a", "c", "h", " ", "c", "h", "e", "c", "k", " ", "u",
      "n", "a", "v", "a", "i", "l", "a", "b", "l", "e", " ", "-", " ">>

MSG_ERROR_HEAD ==
    <<"B", "r", "e", "a", "c", "h", " ", "c", "h", "e", "c", "k", " ", "e",
      "r", "r", "o", "r", " ", "-", " ">>

MSG_FOUND_HEAD ==
    <<"P", "a", "s", "s", "w", "o", "r", "d", " ", "f", "o", "u", "n", "d",
      " ", "i", "n", " ">>

MSG_FOUND_MID ==
    <<" ", "d", "a", "t", "a", " ", "b", "r", "e", "a", "c", "h", "e", "s",
      " ", "-", " ">>

CRITICAL_RISK ==
    <<"C", "R", "I", "T", "I", "C", "A", "L", " ", "R", "I", "S", "K">>

VERY_HIGH_RISK ==
    <<"V", "E", "R", "Y", " ", "H", "I", "G", "H", " ", "R", "I", "S", "K">>

HIGH_RISK ==
    <<"H", "I", "G", "H", " ", "R", "I", "S", "K">>

MODERATE_RISK ==
    <<"M", "O", "D", "E", "R", "A", "T", "E", " ", "R", "I", "S", "K">>

\* type(e).__name__ of the exceptions that can occur
ExcTimeout ==
    <<"T", "i", "m", "e", "o", "u", "t">>

ExcConnectTimeout ==
    <<"C", "o", "n", "n", "e", "c", "t", "T", "i", "m", "e", "o", "u", "t">>

ExcReadTimeout ==
    <<"R", "e", "a", "d", "T", "i", "m", "e", "o", "u", "t">>

ExcConnectionError ==
    <<"C", "o", "n", "n", "e", "c", "t", "i", "o", "n", "E", "r", "r", "o",
      "r">>

ExcSSLError ==
    <<"S", "S", "L", "E", "r", "r", "o", "r">>

ExcKeyboardInterrupt ==
    <<"K", "e", "y", "b", "o", "a", "r", "d", "I", "n", "t", "e", "r", "r",
      "u", "p", "t">>

TimeoutClasses == {ExcTimeout, ExcConnectTimeout, ExcReadTimeout}

\* requests.exceptions.RequestException and its subclasses
RequestExceptionClasses == TimeoutClasses \cup {ExcConnectionError, ExcSSLError}

ExcEOFError == <<"E", "O", "F", "E", "r", "r", "o", "r">>

ExcUnicodeEncodeError ==
    <<"U", "n", "i", "c", "o", "d", "e", "E", "n", "c", "o", "d", "e", "E",
      "r", "r", "o", "r">>

ExcSystemExit == <<"S", "y", "s", "t", "e", "m", "E", "x", "i", "t">>

\* Exception and its subclasses; KeyboardInterrupt and SystemExit are not
\* among them
ExceptionClasses ==
    RequestExceptionClasses \cup {ExcValueError, ExcEOFError, ExcUnicodeEncodeError}

\* a request that carries the whole digest
pwned_request_full_hash(pw) ==
    [url |-> <<HIBP_API_URL>> \o upper(sha1_hexdigest(pw)),
     timeout |-> API_TIMEOUT,
     headers |-> [UserAgent |-> "Password-Strength-Checker"]]

\* the request that check_pwned_password passes to requests.get
pwned_request(pw) ==
    LET sha1_hash == upper(sha1_hexdigest(pw))
        hash_prefix == SubSeq(sha1_hash, 1, 5)
    IN [url |-> <<HIBP_API_URL>> \o hash_prefix,
        timeout |-> API_TIMEOUT,
        headers |-> [UserAgent |-> "Password-Strength-Checker"]]

\* the for loop of check_pwned_password over response.text.splitlines(),
\* from line k on: the tuple returned or the exception raised
RECURSIVE pwned_scan(_, _, _)
pwned_scan(lines, k, hash_suffix) ==
    IF k > Len(lines) THEN Return(<<FALSE, MSG_NOT_FOUND, 0>>)
    ELSE LET line == lines[k]
             parts == SplitColon(line, 1, <<>>)
         IN IF ~InStr(":", line) THEN pwned_scan(lines, k + 1, hash_suffix)
            ELSE IF Len(parts) # 2 THEN Raise(ExcValueError)
            ELSE IF parts[1] # hash_suffix THEN pwned_scan(lines, k + 1, hash_suffix)
            ELSE IF ~IsDecimal(parts[2]) THEN Raise(ExcValueError)
            ELSE LET count == ParseInt(parts[2])
                     severity == IF count > 100000 THEN CRITICAL_RISK
                                 ELSE IF count > 10000 THEN VERY_HIGH_RISK
                                 ELSE IF count > 1000 THEN HIGH_RISK
                                 ELSE MODERATE_RISK
                 IN Return(<<TRUE,
                             MSG_FOUND_HEAD \o FormatThousands(count)
                                 \o MSG_FOUND_MID \o severity,
                             count>>)

\* the try block, comparing with the digest as hexdigest() returns it
pwned_try_no_upper(pw, reply) ==
    LET sha1_hash == sha1_hexdigest(pw)
        hash_suffix == SubSeq(sha1_hash, 6, Len(sha1_hash))
    IN IF reply.kind = "raise" THEN Raise(reply.exc)
       ELSE IF reply.status # 200
       THEN Return(<<FALSE, MSG_STATUS_HEAD \o Digits(reply.status) \o <<")">>, 0>>)
       ELSE pwned_scan(reply.lines, 1, hash_suffix)

\* the try block of check_pwned_password, given what the service does
pwned_try(pw, reply) ==
    LET sha1_hash == upper(sha1_hexdigest(pw))
        hash_suffix == SubSeq(sha1_hash, 6, Len(sha1_hash))
    IN IF reply.kind = "raise" THEN Raise(reply.exc)
       ELSE IF reply.status # 200
       THEN Return(<<FALSE, MSG_STATUS_HEAD \o Digits(reply.status) \o <<")">>, 0>>)
       ELSE pwned_scan(reply.lines, 1, hash_suffix)

\* check_pwned_password without its last clause, except Exception
check_pwned_password_requests_only(pw, reply) ==
    LET out == pwned_try(pw, reply)
    IN IF out.kind = "return" THEN out
       ELSE IF out.exc \in TimeoutClasses
       THEN Return(<<FALSE, MSG_TIMED_OUT, 0>>)
       ELSE IF out.exc \in RequestExceptionClasses
       THEN Return(<<FALSE, MSG_UNAVAILABLE_HEAD \o out.exc, 0>>)
       ELSE out

\* check_pwned_password: the try block and its three except clauses
check_pwned_password(pw, reply) ==
    LET out == pwned_try(pw, reply)
    IN IF out.kind = "return" THEN out
       ELSE IF out.exc \in TimeoutClasses
       THEN Return(<<FALSE, MSG_TIMED_OUT, 0>>)
       ELSE IF out.exc \in RequestExceptionClasses
       THEN Return(<<FALSE, MSG_UNAVAILABLE_HEAD \o out.exc, 0>>)
       ELSE IF out.exc \in ExceptionClasses
       THEN Return(<<FALSE, MSG_ERROR_HEAD \o out.exc, 0>>)
       ELSE out

(***************************************************************************)
(* display.py: the status shown for the breach check                       *)
(***************************************************************************)
\* print_breach_check without the test for "timed out"
print_breach_check_no_timeout(is_pwned, message) ==
    IF is_pwned THEN "CRITICAL"
    ELSE IF \/ Contains(<<"u", "n", "a", "v", "a", "i", "l", "a", "b", "l", "e">>, lower(message))
            \/ Contains(<<"e", "r", "r", "o", "r">>, lower(message))
    THEN "WARN"
    ELSE "PASS"

print_breach_check(is_pwned, message) ==
    IF is_pwned THEN "CRITICAL"
    ELSE IF \/ Contains(<<"u", "n", "a", "v", "a", "i", "l", "a", "b", "l", "e">>, lower(message))
            \/ Contains(<<"t", "i", "m", "e", "d", " ", "o", "u", "t">>, lower(message))
            \/ Contains(<<"e", "r", "r", "o", "r">>, lower(message))
    THEN "WARN"
    ELSE "PASS"

(***************************************************************************)
(* checker.py: the recommendations                                         *)
(***************************************************************************)
\* generate_recommendations giving the general advice below a score of 80
generate_recommendations_80(res) ==
    LET Get(key, default) == IF key \in DOMAIN res THEN res[key] ELSE default
        password_len == Len(Get("password", <<>>))
        LineOf(check) ==
            IF check.name = "Length"
            THEN Message("Increase password length to at least 12 characters (currently {password_len})",
                         <<password_len>>)
            ELSE IF check.name = "Uppercase"
            THEN Message("Add uppercase letters (A-Z)", <<>>)
            ELSE IF check.name = "Lowercase"
            THEN Message("Add lowercase letters (a-z)", <<>>)
            ELSE IF check.name = "Digits"
            THEN Message("Add numeric digits (0-9)", <<>>)
            ELSE Message("Add special characters (!@#$%^&*)", <<>>)
        Named(check) ==
            check.name \in {"Length", "Uppercase", "Lowercase", "Digits", "Special Chars"}
        Failed(check) == ~check.passed /\ Named(check)
        failed == SelectSeq(res.checks, Failed)
        r1 == [k \in 1..Len(failed) |-> LineOf(failed[k])]
        r2 == IF Get("has_weak_patterns", FALSE)
              THEN Append(r1, Message("Avoid predictable patterns (sequential chars, repetition, common words)", <<>>))
              ELSE r1
        r3 == IF Get("is_common", FALSE)
              THEN Append(r2, Message("CRITICAL: Never use common passwords - this one is in the top 10,000 most used", <<>>))
              ELSE r2
        r4 == IF Get("is_pwned", FALSE)
              THEN Append(r3, Message("CRITICAL: Password exposed in {breach_count:,} data breaches - change immediately",
                                      <<FormatThousands(Get("pwned_count", 0))>>))
              ELSE r3
        r5 == IF Get("entropy", 0) < 6000
              THEN Append(r4, Message("Increase randomness - use a mix of unrelated characters", <<>>))
              ELSE r4
    IN IF Get("final_score", 0) < 80
       THEN Append(r5, Message("Consider using a passphrase (4+ random words) or password manager", <<>>))
       ELSE r5

\* generate_recommendations(results); a dict is a record, and a key that is
\* absent is absent from its domain; the entropy is in hundredths of a bit
generate_recommendations(res) ==
    LET Get(key, default) == IF key \in DOMAIN res THEN res[key] ELSE default
        password_len == Len(Get("password", <<>>))
        LineOf(check) ==
            IF check.name = "Length"
            THEN Message("Increase password length to at least 12 characters (currently {password_len})",
                         <<password_len>>)
            ELSE IF check.name = "Uppercase"
            THEN Message("Add uppercase letters (A-Z)", <<>>)
            ELSE IF check.name = "Lowercase"
            THEN Message("Add lowercase letters (a-z)", <<>>)
            ELSE IF check.name = "Digits"
            THEN Message("Add numeric digits (0-9)", <<>>)
            ELSE Message("Add special characters (!@#$%^&*)", <<>>)
        Named(check) ==
            check.name \in {"Length", "Uppercase", "Lowercase", "Digits", "Special Chars"}
        Failed(check) == ~check.passed /\ Named(check)
        failed == SelectSeq(res.checks, Failed)
        r1 == [k \in 1..Len(failed) |-> LineOf(failed[k])]
        r2 == IF Get("has_weak_patterns", FALSE)
              THEN Append(r1, Message("Avoid predictable patterns (sequential chars, repetition, common words)", <<>>))
              ELSE r1
        r3 == IF Get("is_common", FALSE)
              THEN Append(r2, Message("CRITICAL: Never use common passwords - this one is in the top 10,000 most used", <<>>))
              ELSE r2
        r4 == IF Get("is_pwned", FALSE)
              THEN Append(r3, Message("CRITICAL: Password exposed in {breach_count:,} data breaches - change immediately",
                                      <<FormatThousands(Get("pwned_count", 0))>>))
              ELSE r3
        r5 == IF Get("entropy", 0) < 6000
              THEN Append(r4, Message("Increase randomness - use a mix of unrelated characters", <<>>))
              ELSE r4
    IN IF Get("final_score", 0) < 60
       THEN Append(r5, Message("Consider using a passphrase (4+ random words) or password manager", <<>>))
       ELSE r5

(***************************************************************************)
(* Inputs                                                                  *)
(***************************************************************************)
\* passwords are concatenations of at most MaxChunks of these pieces
Chunks ==
    { <<"a", "b", "c">>,
      <<"1", "2", "3">>,
      <<"a", "a", "a">>,
      <<"1", "9", "9", "9">>,
      <<"2", "0", "2", "4">>,
      <<"A", "d", "m", "i", "n">>,
      <<"p", "a", "s", "s", "w", "o", "r", "d">>,
      <<"P", "@", "s", "s", "w", "0", "r", "d">>,
      <<"1", "2", "3", "4", "5">>,
      <<"!">>,
      <<" ">> }

MaxChunks == 2

RECURSIVE ChunkStrings(_)
ChunkStrings(n) ==
    IF n = 0 THEN {<<>>}
    ELSE LET shorter == ChunkStrings(n - 1)
         IN shorter \cup {p \o c : p \in shorter, c \in Chunks}

Passwords == ChunkStrings(MaxChunks)

\* the pieces of the passwords given to the functions of analyzers.py and
\* validators.py: ascending, descending, wrapping and mixed windows, runs
\* of two to four characters, years in and out of the ranges, catalogue
\* entries in two cases, and a digit that int() does not convert
PureChunks ==
    { <<"a", "b", "c">>,
      <<"a", "B", "c">>,
      <<"1", "2", "3">>,
      <<"8", "9", "0">>,
      <<"y", "z", "a">>,
      <<"c", "b", "a">>,
      <<"a", "1">>,
      <<"a", "a", "a">>,
      <<"a", "a">>,
      <<"A">>,
      <<"b", "b", "b", "b">>,
      <<"1", "9", "9", "9">>,
      <<"2", "0", "1", "9">>,
      <<"9", "9">>,
      <<"1", "9", "4", "9">>,
      <<"2", "0", "3", "0">>,
      <<"Q", "w", "e", "r", "t", "y", "u">>,
      <<"a", "d", "m", "i", "n">>,
      <<"A", "d", "m", "i", "n">>,
      <<"1", "2", "3", "4", "5">>,
      <<"p", "a", "s", "s", "w", "o", "r", "d">>,
      <<"!">>,
      <<SUPERSCRIPT_TWO>> }

RECURSIVE PureChunkStrings(_)
PureChunkStrings(n) ==
    IF n = 0 THEN {<<>>}
    ELSE LET shorter == PureChunkStrings(n - 1)
         IN shorter \cup {p \o c : p \in shorter, c \in PureChunks}

PurePasswords == PureChunkStrings(MaxChunks)

\* the scores given to get_strength_category: from MaxDeficit below zero
\* to MaxScore
MaxDeficit == 45

MaxScore == 105

Scores == (0 - MaxDeficit)..MaxScore

\* the entropy values given to get_entropy_rating, in hundredths of a bit
MaxEntropy == 10500

Entropies == 0..MaxEntropy

\* the lines of a word-list file, as iteration over the open file yields them
WordLines ==
    << <<"p", "a", "s", "s", "w", "o", "r", "d", "\n">>,
       <<" ", " ", "A", "d", "m", "i", "n", " ", "\n">>,
       <<"\n">>,
       <<" ", " ", " ", "\n">>,
       <<"P", "@", "s", "s", "w", "0", "r", "d", "\n">>,
       <<"1", "2", "3", "4", "5">> >>

WordFiles ==
    { [state |-> "missing", lines |-> <<>>],
      [state |-> "unreadable", lines |-> <<>>],
      [state |-> "ok", lines |-> <<>>],
      [state |-> "ok", lines |-> WordLines] }

\* what the lookup service can do with a request: raise, answer with a
\* status other than 200, or answer 200 with at most MaxLines lines
MaxLines == 2

OwnSuffix(pw) == SubSeq(upper(sha1_hexdigest(pw)), 6, 40)

ForeignSuffix(pw) ==
    IF pw = <<"p", "a", "s", "s", "w", "o", "r", "d">>
    THEN OwnSuffix(<<"1", "2", "3", "4", "5">>)
    ELSE OwnSuffix(<<"p", "a", "s", "s", "w", "o", "r", "d">>)

Counts ==
    { <<"3">>,
      <<"1", "0", "0", "0">>,
      <<"1", "0", "0", "1">>,
      <<"1", "0", "0", "0", "0">>,
      <<"1", "0", "0", "0", "1">>,
      <<"1", "0", "0", "0", "0", "0">>,
      <<"1", "0", "0", "0", "0", "1">> }

\* well-formed SUFFIX:COUNT lines
GoodLines(pw) ==
    {OwnSuffix(pw) \o <<":">> \o c : c \in Counts}
        \cup {ForeignSuffix(pw) \o <<":">> \o <<"7">>,
              lower(OwnSuffix(pw)) \o <<":">> \o <<"9">>}

\* lines that are not SUFFIX:COUNT
BadLines(pw) ==
    { <<>>,
      <<"g", "a", "r", "b", "a", "g", "e">>,
      OwnSuffix(pw) \o <<":", "1", ":", "2">>,
      OwnSuffix(pw) \o <<":", "1", "x">> }

RECURSIVE SeqsUpTo(_, _)
SeqsUpTo(S, n) ==
    IF n = 0 THEN {<<>>}
    ELSE LET shorter == SeqsUpTo(S, n - 1)
         IN shorter \cup {Append(s, x) : s \in shorter, x \in S}

Replies(pw) ==
    {[kind |-> "raise", exc |-> e, status |-> 0, lines |-> <<>>] :
        e \in {ExcTimeout, ExcConnectTimeout, ExcReadTimeout, ExcConnectionError,
               ExcSSLError, ExcKeyboardInterrupt}}
    \cup {[kind |-> "response", exc |-> <<>>, status |-> s, lines |-> <<>>] :
            s \in {404, 429, 503}}
    \cup {[kind |-> "response", exc |-> <<>>, status |-> 200, lines |-> l] :
            l \in SeqsUpTo(GoodLines(pw) \cup BadLines(pw), MaxLines)}

(***************************************************************************)
(* The analysis of one password                                            *)
(***************************************************************************)
Init ==
    /\ password \in Passwords
    /\ wordfile \in WordFiles
    /\ cache = <<>>
    /\ warnings = 0
    /\ results = <<>>
    /\ common_ret = <<>>
    /\ pwned_ret = <<>>
    /\ request = <<>>
    /\ net = <<>>
    /\ ret = <<>>
    /\ thread = <<>>
    /\ loads = 0
    /\ main = <<>>

\* results = analyze_password(password)
AnalyzePassword ==
    /\ results = <<>>
    /\ results' = <<analyze_password(password)>>
    /\ UNCHANGED <<password, wordfile, cache, warnings, common_ret, pwned_ret,
                   request, net, ret,
                   thread, loads, main>>

\* is_common, message = check_common_password(password)
CheckCommonPassword ==
    LET call == check_common_password(password, cache, wordfile)
    IN /\ common_ret' = <<call.ret>>
       /\ cache' = call.cache
       /\ warnings' = warnings + call.warned
       /\ UNCHANGED <<password, wordfile, results, pwned_ret, request, net, ret,
                   thread, loads, main>>

\* recommendations = generate_recommendations(results), on the result of the
\* analysis as it is or with the keys a caller adds to it
GenerateRecommendations ==
    /\ results # <<>>
    /\ ret = <<>>
    /\ \E d \in {results[1]}
               \cup {[password |-> password] @@ results[1]}
               \cup {[is_pwned |-> TRUE] @@ results[1]}
               \cup {[is_common |-> c, is_pwned |-> p, pwned_count |-> n] @@ results[1] :
                        c \in BOOLEAN, p \in BOOLEAN, n \in {3, 100001}} :
          ret' = <<[fn |-> "generate_recommendations", arg |-> d,
                    out |-> Return(generate_recommendations(d))]>>
    /\ UNCHANGED <<password, wordfile, cache, warnings, results, common_ret,
                   pwned_ret, request, net,
                   thread, loads, main>>

\* found, message, count = check_pwned_password(password)
CheckPwnedPassword ==
    /\ pwned_ret = <<>>
    /\ \E reply \in Replies(password) :
          /\ net' = <<reply>>
          /\ request' = <<pwned_request(password)>>
          /\ pwned_ret' = <<check_pwned_password(password, reply)>>
    /\ UNCHANGED <<password, wordfile, cache, warnings, results, common_ret, ret,
                   thread, loads, main>>

\* pattern_results = analyzers.detect_weak_patterns(password)
DetectWeakPatterns ==
    /\ ret = <<>>
    /\ ret' = <<[fn |-> "detect_weak_patterns",
                 out |-> detect_weak_patterns(password)]>>
    /\ UNCHANGED <<password, wordfile, cache, warnings, results, common_ret,
                   pwned_ret, request, net,
                   thread, loads, main>>

\* analyzers.detect_sequential_chars(password)
DetectSequentialChars ==
    /\ ret = <<>>
    /\ ret' = <<[fn |-> "detect_sequential_chars",
                 out |-> detect_sequential_chars(password)]>>
    /\ UNCHANGED <<password, wordfile, cache, warnings, results, common_ret,
                   pwned_ret, request, net,
                   thread, loads, main>>

\* analyzers.detect_repeated_chars(password)
DetectRepeatedChars ==
    /\ ret = <<>>
    /\ ret' = <<[fn |-> "detect_repeated_chars",
                 out |-> Return(detect_repeated_chars(password))]>>
    /\ UNCHANGED <<password, wordfile, cache, warnings, results, common_ret,
                   pwned_ret, request, net,
                   thread, loads, main>>

\* analyzers.detect_common_years(password)
DetectCommonYears ==
    /\ ret = <<>>
    /\ ret' = <<[fn |-> "detect_common_years",
                 out |-> Return(detect_common_years(password))]>>
    /\ UNCHANGED <<password, wordfile, cache, warnings, results, common_ret,
                   pwned_ret, request, net,
                   thread, loads, main>>

\* analyzers.detect_keyboard_patterns(password)
DetectKeyboardPatterns ==
    /\ ret = <<>>
    /\ ret' = <<[fn |-> "detect_keyboard_patterns",
                 out |-> Return(detect_keyboard_patterns(password))]>>
    /\ UNCHANGED <<password, wordfile, cache, warnings, results, common_ret,
                   pwned_ret, request, net,
                   thread, loads, main>>

\* validators.check_password_length(password)
CheckPasswordLength ==
    /\ ret = <<>>
    /\ ret' = <<[fn |-> "check_password_length",
                 out |-> Return(check_password_length(password))]>>
    /\ UNCHANGED <<password, wordfile, cache, warnings, results, common_ret,
                   pwned_ret, request, net,
                   thread, loads, main>>

\* validators.check_uppercase(password)
CheckUppercase ==
    /\ ret = <<>>
    /\ ret' = <<[fn |-> "check_uppercase",
                 out |-> Return(check_uppercase(password))]>>
    /\ UNCHANGED <<password, wordfile, cache, warnings, results, common_ret,
                   pwned_ret, request, net,
                   thread, loads, main>>

\* validators.check_lowercase(password)
CheckLowercase ==
    /\ ret = <<>>
    /\ ret' = <<[fn |-> "check_lowercase",
                 out |-> Return(check_lowercase(password))]>>
    /\ UNCHANGED <<password, wordfile, cache, warnings, results, common_ret,
                   pwned_ret, request, net,
                   thread, loads, main>>

\* validators.check_digits(password)
CheckDigits ==
    /\ ret = <<>>
    /\ ret' = <<[fn |-> "check_digits",
                 out |-> Return(check_digits(password))]>>
    /\ UNCHANGED <<password, wordfile, cache, warnings, results, common_ret,
                   pwned_ret, request, net,
                   thread, loads, main>>

\* validators.check_special_characters(password)
CheckSpecialCharacters ==
    /\ ret = <<>>
    /\ ret' = <<[fn |-> "check_special_characters",
                 out |-> Return(check_special_characters(password))]>>
    /\ UNCHANGED <<password, wordfile, cache, warnings, results, common_ret,
                   pwned_ret, request, net,
                   thread, loads, main>>

\* analyzers.calculate_entropy(password)
CalculateEntropy ==
    /\ ret = <<>>
    /\ ret' = <<[fn |-> "calculate_entropy",
                 out |-> Return(calculate_entropy(password))]>>
    /\ UNCHANGED <<password, wordfile, cache, warnings, results, common_ret,
                   pwned_ret, request, net,
                   thread, loads, main>>

\* validators.get_strength_category(score)
GetStrengthCategory ==
    /\ ret = <<>>
    /\ \E score \in Scores :
          ret' = <<[fn |-> "get_strength_category", arg |-> score,
                    out |-> Return(get_strength_category(score))]>>
    /\ UNCHANGED <<password, wordfile, cache, warnings, results, common_ret,
                   pwned_ret, request, net,
                   thread, loads, main>>

\* analyzers.get_entropy_rating(entropy)
GetEntropyRating ==
    /\ ret = <<>>
    /\ \E entropy \in Entropies :
          ret' = <<[fn |-> "get_entropy_rating", arg |-> entropy,
                    out |-> Return(get_entropy_rating(entropy))]>>
    /\ UNCHANGED <<password, wordfile, cache, warnings, results, common_ret,
                   pwned_ret, request, net,
                   thread, loads, main>>

Next == AnalyzePassword \/ CheckCommonPassword \/ GenerateRecommendations

Spec == Init /\ [][Next]_vars

(***************************************************************************)
(* The breach check of one password, with the analysis                     *)
(***************************************************************************)
InitPwned ==
    /\ password \in PwnedPasswords
    /\ wordfile = [state |-> "ok", lines |-> WordLines]
    /\ cache = <<>>
    /\ warnings = 0
    /\ results = <<>>
    /\ common_ret = <<>>
    /\ pwned_ret = <<>>
    /\ request = <<>>
    /\ net = <<>>
    /\ ret = <<>>
    /\ thread = <<>>
    /\ loads = 0
    /\ main = <<>>

NextPwned == CheckPwnedPassword \/ AnalyzePassword

SpecPwned == InitPwned /\ [][NextPwned]_vars

(***************************************************************************)
(* The functions of analyzers.py applied to one password                   *)
(***************************************************************************)
InitPure ==
    /\ password \in PurePasswords
    /\ wordfile = [state |-> "ok", lines |-> WordLines]
    /\ cache = <<>>
    /\ warnings = 0
    /\ results = <<>>
    /\ common_ret = <<>>
    /\ pwned_ret = <<>>
    /\ request = <<>>
    /\ net = <<>>
    /\ ret = <<>>
    /\ thread = <<>>
    /\ loads = 0
    /\ main = <<>>

NextPure ==
    \/ DetectWeakPatterns
    \/ DetectSequentialChars
    \/ DetectRepeatedChars
    \/ DetectCommonYears
    \/ DetectKeyboardPatterns
    \/ CheckPasswordLength
    \/ CheckUppercase
    \/ CheckLowercase
    \/ CheckDigits
    \/ CheckSpecialCharacters
    \/ CalculateEntropy

SpecPure == InitPure /\ [][NextPure]_vars

(***************************************************************************)
(* The classification functions applied to one number                      *)
(***************************************************************************)
InitRating ==
    /\ password = <<>>
    /\ wordfile = [state |-> "ok", lines |-> WordLines]
    /\ cache = <<>>
    /\ warnings = 0
    /\ results = <<>>
    /\ common_ret = <<>>
    /\ pwned_ret = <<>>
    /\ request = <<>>
    /\ net = <<>>
    /\ ret = <<>>
    /\ thread = <<>>
    /\ loads = 0
    /\ main = <<>>

NextRating == GetStrengthCategory \/ GetEntropyRating

SpecRating == InitRating /\ [][NextRating]_vars

(***************************************************************************)
(* check_common_password called from several threads: the steps between    *)
(* which another thread can run                                            *)
(***************************************************************************)
NumThreads == 2

Threads == 1..NumThreads

\* a thread enters check_common_password(password) and evaluates
\* _COMMON_PASSWORDS_CACHE is None
ThreadTest(t) ==
    /\ thread[t].pc = "idle"
    /\ thread' = [thread EXCEPT ![t].pc = IF cache = <<>> THEN "load" ELSE "lookup"]
    /\ UNCHANGED <<password, wordfile, cache, warnings, results, common_ret,
                   pwned_ret, request, net, ret, loads, main>>

\* the call load_common_passwords() of the thread returns
ThreadLoad(t) ==
    /\ thread[t].pc = "load"
    /\ LET loaded == load_common_passwords(wordfile)
       IN /\ thread' = [thread EXCEPT ![t].pc = "assign",
                                       ![t].loaded = <<loaded.passwords>>]
          /\ warnings' = warnings + (IF loaded.warned THEN 1 ELSE 0)
    /\ UNCHANGED <<password, wordfile, cache, results, common_ret, pwned_ret,
                   request, net, ret, loads, main>>

\* the thread stores the returned set in _COMMON_PASSWORDS_CACHE
ThreadAssign(t) ==
    /\ thread[t].pc = "assign"
    /\ cache' = thread[t].loaded
    /\ loads' = loads + 1
    /\ thread' = [thread EXCEPT ![t].pc = "lookup", ![t].loaded = <<>>]
    /\ UNCHANGED <<password, wordfile, warnings, results, common_ret, pwned_ret,
                   request, net, ret, main>>

\* the thread tests password.lower() in _COMMON_PASSWORDS_CACHE and returns
ThreadLookup(t) ==
    /\ thread[t].pc = "lookup"
    /\ common_ret' = <<check_common_password(password, cache, wordfile).ret>>
    /\ thread' = [thread EXCEPT ![t].pc = "idle"]
    /\ UNCHANGED <<password, wordfile, cache, warnings, results, pwned_ret,
                   request, net, ret, loads, main>>

InitThreads ==
    /\ password \in Chunks
    /\ wordfile \in WordFiles
    /\ cache = <<>>
    /\ warnings = 0
    /\ results = <<>>
    /\ common_ret = <<>>
    /\ pwned_ret = <<>>
    /\ request = <<>>
    /\ net = <<>>
    /\ ret = <<>>
    /\ thread = [t \in Threads |-> [pc |-> "idle", loaded |-> <<>>]]
    /\ loads = 0
    /\ main = <<>>

NextThreads ==
    \E t \in Threads :
        ThreadTest(t) \/ ThreadLoad(t) \/ ThreadAssign(t) \/ ThreadLookup(t)

SpecThreads == InitThreads /\ [][NextThreads]_vars

(***************************************************************************)
(* password_checker.py: the loop of main()                                 *)
(***************************************************************************)
\* the call analyze_password(password) as main() sees it: the dict, or the
\* ValueError of int() in the digit loop of detect_sequential_chars
analyze_password_call(pw) ==
    IF sequential_digit_loop(pw, 1, <<>>).kind = "raise"
    THEN Raise(ExcValueError)
    ELSE Return(analyze_password(pw))

\* the except clauses of main() with the clause for Exception left out
main_except_interrupt_only(m, e) ==
    IF e = ExcKeyboardInterrupt
    THEN [m EXCEPT !.pc = "exited", !.raised = <<e>>, !.report = "footer",
                   !.cause = e]
    ELSE [m EXCEPT !.pc = "exited", !.raised = <<e>>, !.report = "traceback",
                   !.cause = e]

\* the except clauses of main() for an exception e raised in the try body:
\* KeyboardInterrupt prints the footer and exits, an Exception prints the
\* [ERROR] line and continues the loop, anything else leaves main()
main_except(m, e) ==
    IF e = ExcKeyboardInterrupt
    THEN [m EXCEPT !.pc = "exited", !.raised = <<e>>, !.report = "footer",
                   !.cause = e]
    ELSE IF e \in ExceptionClasses
    THEN [m EXCEPT !.pc = "prompt", !.raised = <<e>>, !.report = "error"]
    ELSE [m EXCEPT !.pc = "exited", !.raised = <<e>>,
                   !.report = IF e = ExcSystemExit THEN "footer" ELSE "traceback",
                   !.cause = e]

\* password = input(...): a line is read, or input() raises EOFError or
\* KeyboardInterrupt; 'exit' ends the process and empty input is skipped
MainInput ==
    /\ main.pc = "prompt"
    /\ \/ \E line \in { <<>>,
                         <<"e", "x", "i", "t">>,
                         <<"E", "x", "I", "T">>,
                         <<"e", "x", "i", "t", " ">>,
                         <<"a", "b", "c">>,
                         <<"p", "a", "s", "s", "w", "o", "r", "d">>,
                         <<"P", "@", "s", "s", "w", "0", "r", "d", "2", "0", "2", "4">>,
                         <<"1", SUPERSCRIPT_TWO, "3">>,
                         <<"a", "1", "2", SUPERSCRIPT_TWO>>,
                         <<SUPERSCRIPT_TWO, "a">> } :
             /\ password' = line
             /\ main' = IF lower(line) = <<"e", "x", "i", "t">>
                        THEN main_except([main EXCEPT !.line = line], ExcSystemExit)
                        ELSE IF line = <<>>
                        THEN [main EXCEPT !.line = line, !.raised = <<>>,
                                          !.report = "warn"]
                        ELSE [main EXCEPT !.line = line, !.raised = <<>>,
                                          !.report = "", !.pc = "analyze"]
       \/ \E e \in {ExcEOFError, ExcKeyboardInterrupt} :
             /\ main' = main_except(main, e)
             /\ UNCHANGED password
    /\ UNCHANGED <<wordfile, cache, warnings, results, common_ret, pwned_ret,
                   request, net, ret, thread, loads>>

\* results = analyze_password(password), or Ctrl+C during the analysis
MainAnalyze ==
    /\ main.pc = "analyze"
    /\ \E call \in {analyze_password_call(password), Raise(ExcKeyboardInterrupt)} :
          IF call.kind = "return"
          THEN /\ results' = <<call.value>>
               /\ main' = [main EXCEPT !.pc = "display"]
          ELSE /\ main' = main_except(main, call.exc)
               /\ UNCHANGED results
    /\ UNCHANGED <<password, wordfile, cache, warnings, common_ret, pwned_ret,
                   request, net, ret, thread, loads>>

\* print_analysis_results(results): the results are printed, or print()
\* raises UnicodeEncodeError on the score bar, or Ctrl+C arrives
MainDisplay ==
    /\ main.pc = "display"
    /\ \/ main' = [main EXCEPT !.pc = "prompt", !.report = "results"]
       \/ \E e \in {ExcUnicodeEncodeError, ExcKeyboardInterrupt} :
             main' = main_except(main, e)
    /\ UNCHANGED <<password, wordfile, cache, warnings, results, common_ret,
                   pwned_ret, request, net, ret, thread, loads>>

InitMain ==
    /\ password = <<>>
    /\ wordfile \in WordFiles
    /\ cache = <<>>
    /\ warnings = 0
    /\ results = <<>>
    /\ common_ret = <<>>
    /\ pwned_ret = <<>>
    /\ request = <<>>
    /\ net = <<>>
    /\ ret = <<>>
    /\ thread = <<>>
    /\ loads = 0
    /\ main = [pc |-> "prompt", line |-> <<>>, raised |-> <<>>, report |-> "",
               cause |-> <<>>]

NextMain == MainInput \/ MainAnalyze \/ MainDisplay

SpecMain == InitMain /\ [][NextMain]_vars

(***************************************************************************)
(* Properties                                                              *)
(***************************************************************************)
PatternNames == {"Sequential", "Repeated", "Common Year", "Keyboard Pattern"}

\* C1: in the result of analyze_password, 0 <= final_score <= base_score <= 100,
\* final_score = max(0, base_score - total_penalty), and base_score is the
\* sum of the scores of the five checks (length, uppercase, lowercase,
\* digits, special)
C1_ScoreBounds ==
    results # <<>> =>
        LET r == results[1]
        IN /\ 0 <= r.final_score
           /\ r.final_score <= r.base_score
           /\ r.base_score <= 100
           /\ r.final_score = Max(0, r.base_score - r.total_penalty)
           /\ [k \in 1..Len(r.checks) |-> r.checks[k].name]
                 = <<"Length", "Uppercase", "Lowercase", "Digits", "Special Chars">>
           /\ r.base_score = SumSeq([k \in 1..Len(r.checks) |-> r.checks[k].score])

\* an analysis whose penalties exceed the base score: the score is floored
C1_Witness ==
    /\ results # <<>>
    /\ results[1].base_score > 0
    /\ results[1].total_penalty > results[1].base_score
    /\ results[1].final_score = 0

\* C2: in the result of an analysis, total_penalty is the sum of the points
\* of the entries of the penalties list, and no two entries have the same
\* label: each pattern kind, the common-password penalty and the breach
\* penalty contribute at most one entry each
C2_PenaltySum ==
    results # <<>> =>
        LET r == results[1]
        IN /\ r.total_penalty
                 = SumSeq([k \in 1..Len(r.penalties) |-> r.penalties[k].penalty])
           /\ \A i, j \in 1..Len(r.penalties) :
                 r.penalties[i].type = r.penalties[j].type => i = j

\* an analysis with two penalty entries, one of them with several instances
C2_Witness ==
    /\ results # <<>>
    /\ Len(results[1].penalties) >= 2
    /\ \E k \in 1..Len(results[1].penalties) :
          Len(results[1].penalties[k].instances) >= 2

\* the fixed weight of a pattern kind if the kind has an instance, else 0
KindWeight(patterns, kind, weight) == IF patterns[kind] # <<>> THEN weight ELSE 0

\* C3: detect_weak_patterns returns total_penalty equal to the sum, over the
\* kinds with a non-empty instance list, of sequential 10, repeated 10,
\* common_year 5, keyboard_pattern 15 (once per kind, so at most 40), and
\* has_patterns is true exactly when some kind has an instance
C3_PenaltyOncePerKind ==
    (ret # <<>> /\ ret[1].fn = "detect_weak_patterns"
        /\ ret[1].out.kind = "return") =>
        LET w == ret[1].out.value
        IN /\ DOMAIN w.patterns
                 = {"sequential", "repeated", "common_year", "keyboard_pattern"}
           /\ w.total_penalty
                 = KindWeight(w.patterns, "sequential", 10)
                   + KindWeight(w.patterns, "repeated", 10)
                   + KindWeight(w.patterns, "common_year", 5)
                   + KindWeight(w.patterns, "keyboard_pattern", 15)
           /\ w.total_penalty <= 40
           /\ w.has_patterns = (\E kind \in DOMAIN w.patterns : w.patterns[kind] # <<>>)

\* a password with several sequential instances and a keyboard pattern
C3_Witness ==
    /\ ret # <<>>
    /\ ret[1].fn = "detect_weak_patterns"
    /\ ret[1].out.kind = "return"
    /\ Len(ret[1].out.value.patterns.sequential) >= 2
    /\ ret[1].out.value.patterns.keyboard_pattern # <<>>
    /\ ret[1].out.value.total_penalty = 25

\* C4: when the analysed password is in the word list (the common-password
\* check reports it), the analysis sets the common-password flag and its
\* penalties hold exactly one entry labelled "Common Password", of 50
\* points, whose instance list does not contain the password
C4_CommonPenaltyApplied ==
    (results # <<>> /\ common_ret # <<>> /\ common_ret[1][1]) =>
        LET r == results[1]
            common == {k \in 1..Len(r.penalties) :
                          r.penalties[k].type = "Common Password"}
        IN /\ "is_common" \in DOMAIN r
           /\ r.is_common
           /\ Cardinality(common) = 1
           /\ \A k \in common :
                 /\ r.penalties[k].penalty = 50
                 /\ ~InList(password, r.penalties[k].instances)

\* the words of the source as load_common_passwords reads them
SourceWords(f) ==
    IF f.state = "ok"
    THEN {lower(strip(f.lines[k])) : k \in 1..Len(f.lines)} \ {<<>>}
    ELSE {}

\* C10: check_common_password returns True exactly when the lower-cased
\* password equals some non-blank line of the word-list source, stripped
\* of surrounding whitespace and lower-cased (whole string, any case of
\* the password)
C10_ExactCaseInsensitiveMatch ==
    common_ret # <<>> =>
        (common_ret[1][1] <=>
            \E k \in 1..Len(wordfile.lines) :
                /\ wordfile.state = "ok"
                /\ strip(wordfile.lines[k]) # <<>>
                /\ lower(password) = lower(strip(wordfile.lines[k])))

\* a password reported common whose case differs from the line of the
\* source, the line being padded with whitespace
C10_Witness ==
    /\ common_ret # <<>>
    /\ common_ret[1][1]
    /\ password = <<"A", "d", "m", "i", "n">>
    /\ \E k \in 1..Len(wordfile.lines) : wordfile.lines[k] = <<" ", " ", "A", "d", "m", "i", "n", " ", "\n">>

\* a password that contains a word of the source but is not one
C10_WitnessSubstring ==
    /\ common_ret # <<>>
    /\ ~common_ret[1][1]
    /\ wordfile.state = "ok"
    /\ \E w \in SourceWords(wordfile) : Contains(w, lower(password))

\* the penalty entries of a result that are neither a pattern penalty nor
\* the common-password penalty
BreachEntries(r) ==
    {k \in 1..Len(r.penalties) :
        r.penalties[k].type \notin PatternNames \cup {"Common Password"}}

BreachTier(c) ==
    IF c > 100000 THEN 40
    ELSE IF c > 10000 THEN 35
    ELSE IF c > 1000 THEN 30
    ELSE 25

\* C5: when the breach check reports found with count c, the analysis holds
\* exactly one breach penalty, of 40 points if c > 100000, 35 if c > 10000,
\* 30 if c > 1000 and 25 otherwise; when it reports not found, none
C5_BreachPenaltyApplied ==
    (results # <<>> /\ pwned_ret # <<>> /\ pwned_ret[1].kind = "return") =>
        LET r == results[1]
            found == pwned_ret[1].value[1]
            count == pwned_ret[1].value[3]
        IN IF found
           THEN /\ Cardinality(BreachEntries(r)) = 1
                /\ \A k \in BreachEntries(r) : r.penalties[k].penalty = BreachTier(count)
           ELSE BreachEntries(r) = {}

\* the lookup failed: requests.get raised an exception, the status is not
\* 200, or parsing the response raised
LookupFailed ==
    /\ net # <<>>
    /\ \/ net[1].kind = "raise" /\ net[1].exc # ExcKeyboardInterrupt
       \/ net[1].kind = "response" /\ net[1].status # 200
       \/ net[1].kind = "response" /\ pwned_try(password, net[1]).kind = "raise"

\* the lookup answered 200 and the scan of the response ended without a match
GenuineNotFound ==
    /\ net # <<>>
    /\ net[1].kind = "response"
    /\ net[1].status = 200
    /\ pwned_try(password, net[1]).kind = "return"
    /\ ~pwned_try(password, net[1]).value[1]

\* C6: on every failure of the lookup check_pwned_password does not raise
\* and returns found = False, count = 0 and a message, and the analysis
\* holds no breach penalty: its total_penalty is that of its pattern entries
C6_FailOpen ==
    (pwned_ret # <<>> /\ LookupFailed) =>
        /\ pwned_ret[1].kind = "return"
        /\ pwned_ret[1].value[1] = FALSE
        /\ pwned_ret[1].value[3] = 0
        /\ pwned_ret[1].value[2] # <<>>
        /\ results # <<>> =>
              /\ BreachEntries(results[1]) = {}
              /\ \A k \in 1..Len(results[1].penalties) :
                    results[1].penalties[k].type \in PatternNames
              /\ results[1].total_penalty
                    = SumSeq([k \in 1..Len(results[1].penalties) |->
                                 results[1].penalties[k].penalty])

\* a response whose parsing raised ValueError, with the analysis done
C6_Witness ==
    /\ pwned_ret # <<>>
    /\ results # <<>>
    /\ net[1].kind = "response"
    /\ net[1].status = 200
    /\ pwned_try(password, net[1]).kind = "raise"
    /\ pwned_ret[1].kind = "return"

AdvisoryWords == { <<"u", "n", "a", "v", "a", "i", "l", "a", "b", "l", "e">>,
                   <<"t", "i", "m", "e", "d", " ", "o", "u", "t">>,
                   <<"e", "r", "r", "o", "r">> }

\* C7: the message of a failed lookup is never the message of a genuine
\* not-found; it contains "unavailable", "timed out" or "error" and the
\* genuine not-found message contains none of them, so print_breach_check
\* shows WARN for a failure and PASS for a genuine not-found
C7_FailureDistinguishable ==
    pwned_ret # <<>> =>
        /\ LookupFailed =>
              /\ pwned_ret[1].kind = "return"
              /\ pwned_ret[1].value[2] # MSG_NOT_FOUND
              /\ \E w \in AdvisoryWords : Contains(w, pwned_ret[1].value[2])
              /\ print_breach_check(pwned_ret[1].value[1], pwned_ret[1].value[2]) = "WARN"
        /\ GenuineNotFound =>
              /\ pwned_ret[1].kind = "return"
              /\ pwned_ret[1].value[2] = MSG_NOT_FOUND
              /\ \A w \in AdvisoryWords : ~Contains(w, pwned_ret[1].value[2])
              /\ print_breach_check(pwned_ret[1].value[1], pwned_ret[1].value[2]) = "PASS"

\* a lookup that timed out
C7_Witness ==
    /\ pwned_ret # <<>>
    /\ net[1].kind = "raise"
    /\ net[1].exc = ExcReadTimeout
    /\ pwned_ret[1].kind = "return"
    /\ pwned_ret[1].value[2] = MSG_TIMED_OUT

HashPrefix(pw) == SubSeq(upper(sha1_hexdigest(pw)), 1, 5)

\* C8: the request holds, of the password, only the first 5 characters of
\* the upper-case hexadecimal SHA-1 digest, after the base URL; the other
\* 35 characters are not in it, and every password whose digest has the
\* same 5-character prefix produces the same request
C8_OnlyPrefixSent ==
    request # <<>> =>
        /\ request[1].url = <<HIBP_API_URL>> \o HashPrefix(password)
        /\ Len(request[1].url) = 6
        /\ ~Contains(OwnSuffix(password), request[1].url)
        /\ request[1].timeout = API_TIMEOUT
        /\ request[1].headers = [UserAgent |-> "Password-Strength-Checker"]
        /\ \A q \in PwnedPasswords :
              HashPrefix(q) = HashPrefix(password) => pwned_request(q) = request[1]

\* a request sent for a password that shares its prefix with another one
C8_Witness ==
    /\ request # <<>>
    /\ \E q \in PwnedPasswords :
          /\ q # password
          /\ HashPrefix(q) = HashPrefix(password)
          /\ OwnSuffix(q) # OwnSuffix(password)

\* SUFFIX:COUNT with a suffix of 35 characters and a decimal count
WellFormed(line) ==
    /\ Len(line) >= 37
    /\ line[36] = ":"
    /\ \A i \in (1..Len(line)) \ {36} : line[i] # ":"
    /\ \A i \in 37..Len(line) : isdigit(line[i])

\* the lines of the response whose suffix is that of the password
Matching(lines, pw) ==
    {k \in 1..Len(lines) : SubSeq(lines[k], 1, 35) = OwnSuffix(pw)}

\* C9: for a status-200 response of well-formed lines, found is True
\* exactly when some line's suffix equals the 35-character remainder of
\* the upper-case digest, and count is then the count of the first such
\* line; with no such line found is False and count is 0
C9_FirstSuffixMatch ==
    (pwned_ret # <<>> /\ net[1].kind = "response" /\ net[1].status = 200
        /\ \A k \in 1..Len(net[1].lines) : WellFormed(net[1].lines[k])) =>
        LET lines == net[1].lines
            hits == Matching(lines, password)
            first == CHOOSE k \in hits : \A j \in hits : k <= j
        IN /\ pwned_ret[1].kind = "return"
           /\ pwned_ret[1].value[1] = (hits # {})
           /\ hits # {} =>
                 Digits(pwned_ret[1].value[3])
                     = SubSeq(lines[first], 37, Len(lines[first]))
           /\ hits = {} => pwned_ret[1].value[3] = 0

\* two lines with the suffix of the password and different counts
C9_Witness ==
    /\ pwned_ret # <<>>
    /\ net[1].kind = "response"
    /\ net[1].status = 200
    /\ Len(net[1].lines) = 2
    /\ \A k \in 1..2 : WellFormed(net[1].lines[k])
    /\ Matching(net[1].lines, password) = {1, 2}
    /\ net[1].lines[1] # net[1].lines[2]
    /\ pwned_ret[1].value[1]

\* the call of a function of analyzers.py or validators.py has returned
Returned(fn) == ret # <<>> /\ ret[1].fn = fn /\ ret[1].out.kind = "return"

\* the window of three characters at position i is three letters whose
\* lower-cased code points, or three decimal digits whose values, increase
\* by one at each step
SequentialWindow(pw, i) ==
    LET c1 == LowerTable[pw[i]]
        c2 == LowerTable[pw[i + 1]]
        c3 == LowerTable[pw[i + 2]]
    IN \/ /\ isalpha(c1) /\ isalpha(c2) /\ isalpha(c3)
          /\ ord(c2) - ord(c1) = 1
          /\ ord(c3) - ord(c2) = 1
       \/ /\ isdecimal(c1) /\ isdecimal(c2) /\ isdecimal(c3)
          /\ int(c2) - int(c1) = 1
          /\ int(c3) - int(c2) = 1

SequentialPositions(pw) == {i \in 1..(Len(pw) - 2) : SequentialWindow(pw, i)}

\* the first position of the password at which the string t stands
FirstAt(t, pw) ==
    CHOOSE i \in 1..Len(pw) :
        /\ i + Len(t) - 1 <= Len(pw)
        /\ SubSeq(pw, i, i + Len(t) - 1) = t
        /\ \A j \in 1..(i - 1) : SubSeq(pw, j, j + Len(t) - 1) # t

\* the list holds no string twice
NoDuplicates(list) ==
    \A k, l \in 1..Len(list) : list[k] = list[l] => k = l

\* the strings of the list stand in the order of their first positions
InOrderOfFirstOccurrence(list, pw) ==
    \A k, l \in 1..Len(list) : k < l => FirstAt(list[k], pw) < FirstAt(list[l], pw)

\* C11: detect_sequential_chars returns each distinct sequential window
\* once, in the order of first occurrence in the password, letters and
\* digits interleaved by position ("Password123abc" gives ["123", "abc"])
C11_OrderOfFirstOccurrence ==
    Returned("detect_sequential_chars") =>
        LET v == ret[1].out.value
        IN /\ NoDuplicates(v)
           /\ Range(v) = {SubSeq(password, i, i + 2) : i \in SequentialPositions(password)}
           /\ InOrderOfFirstOccurrence(v, password)

\* C12: a 3-character string is in the result of detect_sequential_chars
\* exactly when it is the original-case text of a window of three letters
\* whose lower-cased code points increase by 1 at each step, or of three
\* digits whose values increase by 1 at each step; mixed, descending and
\* wrapping windows are not reported
C12_SequentialWindows ==
    Returned("detect_sequential_chars") =>
        /\ Range(ret[1].out.value)
              = {SubSeq(password, i, i + 2) : i \in SequentialPositions(password)}
        /\ \A k \in 1..Len(ret[1].out.value) : Len(ret[1].out.value[k]) = 3

\* a mixed-case ascending window reported next to a wrapping digit window
\* that is not
C12_Witness ==
    /\ Returned("detect_sequential_chars")
    /\ password = <<"a", "B", "c", "8", "9", "0">>
    /\ ret[1].out.value = << <<"a", "B", "c">> >>

\* position i starts a maximal run of three or more identical characters
RunStart(pw, i) ==
    /\ i + 2 <= Len(pw)
    /\ pw[i + 1] = pw[i] /\ pw[i + 2] = pw[i]
    /\ (i = 1 \/ pw[i - 1] # pw[i])

\* the maximal run that starts at position i
RunFrom(pw, i) ==
    LET after == {j \in i..Len(pw) : pw[j] # pw[i]}
        last == IF after = {} THEN Len(pw)
                ELSE (CHOOSE j \in after : \A k \in after : j <= k) - 1
    IN SubSeq(pw, i, last)

\* C13: detect_repeated_chars returns, left to right and each distinct
\* string once, exactly the maximal runs of 3 or more identical consecutive
\* characters of the raw password (case-sensitive); a run of 2 and a run
\* broken by a case change are not reported
C13_MaximalRuns ==
    Returned("detect_repeated_chars") =>
        LET v == ret[1].out.value
            starts == {i \in 1..Len(password) : RunStart(password, i)}
        IN /\ NoDuplicates(v)
           /\ Range(v) = {RunFrom(password, i) : i \in starts}
           /\ \A k, l \in 1..Len(v) : k < l =>
                 \E i \in starts : /\ RunFrom(password, i) = v[k]
                                   /\ \A j \in starts :
                                         RunFrom(password, j) = v[l] => i < j

\* two maximal runs reported in order, the longer one whole
C13_Witness ==
    /\ Returned("detect_repeated_chars")
    /\ password = <<"a", "a", "a", "b", "b", "b", "b">>
    /\ ret[1].out.value = << <<"a", "a", "a">>, <<"b", "b", "b", "b">> >>

\* the four characters at position i are decimal digits that read as a
\* year from 1950 to 1999 or from 2000 to 2029
YearInRange(pw, i) ==
    /\ i + 3 <= Len(pw)
    /\ \A k \in i..(i + 3) : isdecimal(pw[k])
    /\ LET year == 1000 * int(pw[i]) + 100 * int(pw[i + 1])
                       + 10 * int(pw[i + 2]) + int(pw[i + 3])
       IN (1950 <= year /\ year <= 1999) \/ (2000 <= year /\ year <= 2029)

YearPositions(pw) == {i \in 1..Len(pw) : YearInRange(pw, i)}

\* the positions a left-to-right scan matches when it resumes after the
\* end of each match: the year positions not overlapped by an earlier match
ScanPositions(pw) ==
    CHOOSE M \in SUBSET YearPositions(pw) :
        \A i \in YearPositions(pw) :
            i \in M <=> (\A j \in M : ~(j < i /\ i <= j + 3))

Occurs(pattern, pw) ==
    \E i \in 1..Len(pw) :
        /\ i + Len(pattern) - 1 <= Len(pw)
        /\ \A k \in 1..Len(pattern) : LowerTable[pw[i + k - 1]] = pattern[k]

\* the span of the password, in its own case, at the leftmost occurrence of
\* the catalogue entry
LeftmostSpan(pattern, pw) ==
    LET at == {i \in 1..Len(pw) :
                  /\ i + Len(pattern) - 1 <= Len(pw)
                  /\ \A k \in 1..Len(pattern) :
                        LowerTable[pw[i + k - 1]] = pattern[k]}
        first == CHOOSE i \in at : \A j \in at : i <= j
    IN SubSeq(pw, first, first + Len(pattern) - 1)

C16_LengthTiers ==
    Returned("check_password_length") =>
        LET n == Len(password)
            r == ret[1].out.value
        IN <<r[1], r[2]>> = IF n < 8 THEN <<FALSE, 0>>
                            ELSE IF n <= 11 THEN <<TRUE, 15>>
                            ELSE IF n <= 15 THEN <<TRUE, 25>>
                            ELSE <<TRUE, 30>>

\* a password of 16 characters gets the full 30 points
C16_Witness ==
    /\ Returned("check_password_length")
    /\ Len(password) = 16
    /\ ret[1].out.value[1]
    /\ ret[1].out.value[2] = 30

\* the characters of the class a check of validators.py looks for, and the
\* key of its weight
ClassOf ==
    [check_uppercase |-> [chars |-> Range(UPPERCASE_CHARS), key |-> "uppercase"],
     check_lowercase |-> [chars |-> Range(LOWERCASE_CHARS), key |-> "lowercase"],
     check_digits |-> [chars |-> Range(DIGIT_CHARS), key |-> "digits"],
     check_special_characters |-> [chars |-> Range(SPECIAL_CHARS), key |-> "special"]]

\* C17: each of the four class checks passes exactly when the password
\* holds a character of its class, and scores the weight of the class in
\* SCORE_WEIGHTS (15, 15, 20, 20) when passed and 0 otherwise; with the
\* length weight of 30 the weights sum to 100
C17_ClassChecks ==
    /\ \A fn \in DOMAIN ClassOf :
          Returned(fn) =>
              LET r == ret[1].out.value
                  present == Range(password) \cap ClassOf[fn].chars # {}
              IN /\ r[1] = present
                 /\ r[2] = IF present THEN SCORE_WEIGHTS[ClassOf[fn].key] ELSE 0
    /\ SCORE_WEIGHTS.uppercase = 15 /\ SCORE_WEIGHTS.lowercase = 15
    /\ SCORE_WEIGHTS.digits = 20 /\ SCORE_WEIGHTS.special = 20
    /\ SCORE_WEIGHTS.length = 30
    /\ SCORE_WEIGHTS.length + SCORE_WEIGHTS.uppercase + SCORE_WEIGHTS.lowercase
           + SCORE_WEIGHTS.digits + SCORE_WEIGHTS.special = 100

\* the digit check passed with 20 points on a password that also holds a
\* character that is a digit for isdigit() but not one of 0-9
C17_Witness ==
    /\ Returned("check_digits")
    /\ ret[1].out.value[1]
    /\ ret[1].out.value[2] = 20
    /\ SUPERSCRIPT_TWO \in Range(password)

StrengthRank ==
    [c \in {"VERY WEAK", "WEAK", "MODERATE", "STRONG", "VERY STRONG"} |->
        CASE c = "VERY WEAK" -> 0
          [] c = "WEAK" -> 1
          [] c = "MODERATE" -> 2
          [] c = "STRONG" -> 3
          [] c = "VERY STRONG" -> 4]

\* C18: get_strength_category gives VERY WEAK below 20, WEAK for 20..39,
\* MODERATE for 40..59, STRONG for 60..79 and VERY STRONG from 80 on, and
\* the rank of the category never decreases when the score increases
C18_StrengthBands ==
    Returned("get_strength_category") =>
        LET score == ret[1].arg
            category == ret[1].out.value[1]
        IN /\ category = IF score < 20 THEN "VERY WEAK"
                         ELSE IF score <= 39 THEN "WEAK"
                         ELSE IF score <= 59 THEN "MODERATE"
                         ELSE IF score <= 79 THEN "STRONG"
                         ELSE "VERY STRONG"
           /\ \A lower_score \in Scores :
                 lower_score <= score =>
                     StrengthRank[get_strength_category(lower_score)[1]]
                         <= StrengthRank[category]

\* the score 80 is the first VERY STRONG one
C18_Witness ==
    /\ Returned("get_strength_category")
    /\ ret[1].arg = 80
    /\ ret[1].out.value[1] = "VERY STRONG"

\* the pool of a password: 26 for a lowercase letter, 26 for an uppercase
\* letter, 10 for a digit and 32 for a punctuation character present
PoolOf(pw) ==
    (IF Range(pw) \cap Range(LOWERCASE_CHARS) # {} THEN 26 ELSE 0)
    + (IF Range(pw) \cap Range(UPPERCASE_CHARS) # {} THEN 26 ELSE 0)
    + (IF Range(pw) \cap Range(DIGIT_CHARS) # {} THEN 10 ELSE 0)
    + (IF Range(pw) \cap Range(SPECIAL_CHARS) # {} THEN 32 ELSE 0)

\* v hundredths of a bit is n * log2(pool) rounded to two decimal places:
\* the difference, in units of 10^-9 bit, is at most half a hundredth
RoundsTo(v, n, pool) ==
    LET d == n * LOG2_HI[pool] - v * 100
    IN /\ d \in -100..100
       /\ d * 100000 + n * LOG2_LO[pool] \in -5000000..5000000

C20_EntropyBands ==
    Returned("get_entropy_rating") =>
        LET e == ret[1].arg
        IN ret[1].out.value[1]
               = IF e < 2800 THEN "Very Low"
                 ELSE IF e < 3600 THEN "Low"
                 ELSE IF e < 6000 THEN "Moderate"
                 ELSE IF e < 8000 THEN "High"
                 ELSE "Very High"

\* 28 bits is the first "Low" value
C20_Witness ==
    /\ Returned("get_entropy_rating")
    /\ ret[1].arg = 2800
    /\ ret[1].out.value[1] = "Low"

\* the fields of an analysis result the score is made of
ScoreFields(r) ==
    [checks |-> r.checks, base_score |-> r.base_score, penalties |-> r.penalties,
     total_penalty |-> r.total_penalty, final_score |-> r.final_score,
     strength |-> r.strength]

\* C21: the entropy and its rating never contribute to the score: the step
\* of analyze_password that computes entropy and entropy_rating leaves
\* base_score, total_penalty and the penalties list as they are, and
\* final_score and strength are computed from base_score and total_penalty
\* only
C21_EntropyDoesNotScore ==
    results # <<>> =>
        LET r == results[1]
            cleared == [r EXCEPT !.entropy = 0, !.entropy_rating = ""]
        IN /\ ScoreFields(pc_entropy_step(password, cleared)) = ScoreFields(cleared)
           /\ pc_entropy_step(password, cleared).entropy = r.entropy
           /\ r.final_score
                 = Max(0, SumSeq([k \in 1..Len(r.checks) |-> r.checks[k].score])
                          - SumSeq([k \in 1..Len(r.penalties) |-> r.penalties[k].penalty]))
           /\ r.strength = pc_get_strength_category(
                               Max(0, r.base_score - r.total_penalty))[1]

\* an analysis whose entropy is rated High and whose strength is WEAK
C21_Witness ==
    /\ results # <<>>
    /\ results[1].entropy >= 6000
    /\ results[1].entropy_rating = "High"
    /\ results[1].strength = "WEAK"

\* the condition a recommendation line stands for, by its text
RecKind(line) ==
    CASE line.fmt = "Increase password length to at least 12 characters (currently {password_len})" -> "length"
      [] line.fmt = "Add uppercase letters (A-Z)" -> "uppercase"
      [] line.fmt = "Add lowercase letters (a-z)" -> "lowercase"
      [] line.fmt = "Add numeric digits (0-9)" -> "digits"
      [] line.fmt = "Add special characters (!@#$%^&*)" -> "special"
      [] line.fmt = "Avoid predictable patterns (sequential chars, repetition, common words)" -> "patterns"
      [] line.fmt = "CRITICAL: Never use common passwords - this one is in the top 10,000 most used" -> "common"
      [] line.fmt = "CRITICAL: Password exposed in {breach_count:,} data breaches - change immediately" -> "breach"
      [] line.fmt = "Increase randomness - use a mix of unrelated characters" -> "entropy"
      [] line.fmt = "Consider using a passphrase (4+ random words) or password manager" -> "general"
      [] OTHER -> "other"

\* the check called name has failed in the result d
FailedCheck(d, name) ==
    \E k \in 1..Len(d.checks) : d.checks[k].name = name /\ ~d.checks[k].passed

\* the key is present in the result d and true
Flag(d, key) == key \in DOMAIN d /\ d[key]

\* whether the condition of a recommendation kind holds of the result d
RecCondition(d, kind) ==
    CASE kind = "length" -> FailedCheck(d, "Length")
      [] kind = "uppercase" -> FailedCheck(d, "Uppercase")
      [] kind = "lowercase" -> FailedCheck(d, "Lowercase")
      [] kind = "digits" -> FailedCheck(d, "Digits")
      [] kind = "special" -> FailedCheck(d, "Special Chars")
      [] kind = "patterns" -> d.has_weak_patterns
      [] kind = "common" -> Flag(d, "is_common")
      [] kind = "breach" -> Flag(d, "is_pwned")
      [] kind = "entropy" -> d.entropy < 6000
      [] kind = "general" -> d.final_score < 60

RecOrder ==
    <<"length", "uppercase", "lowercase", "digits", "special", "patterns",
      "common", "breach", "entropy", "general">>

\* C22: generate_recommendations returns exactly the lines whose conditions
\* hold, each once, in the order length, uppercase, lowercase, digits,
\* special, patterns, common, breach, entropy, general: a line per failed
\* check, the patterns line iff weak patterns were found, the common line
\* iff common, the breach line with the breach count iff breached, the
\* randomness line iff entropy < 60 and the general line iff final_score < 60
C22_RecommendationLines ==
    Returned("generate_recommendations") =>
        LET d == ret[1].arg
            v == ret[1].out.value
            Holds(kind) == RecCondition(d, kind)
            NotComma(c) == c # ","
        IN /\ [k \in 1..Len(v) |-> RecKind(v[k])] = SelectSeq(RecOrder, Holds)
           /\ \A k \in 1..Len(v) :
                 RecKind(v[k]) = "breach" =>
                    SelectSeq(v[k].args[1], NotComma)
                        = Digits(IF "pwned_count" \in DOMAIN d THEN d.pwned_count ELSE 0)

\* a result flagged common and breached with 100,001 breaches, some checks
\* failed and weak patterns found
C22_Witness ==
    /\ Returned("generate_recommendations")
    /\ Flag(ret[1].arg, "is_common")
    /\ Flag(ret[1].arg, "is_pwned")
    /\ "pwned_count" \in DOMAIN ret[1].arg
    /\ ret[1].arg.pwned_count = 100001
    /\ ret[1].arg.has_weak_patterns
    /\ Len(ret[1].out.value) >= 7
    /\ \E k \in 1..Len(ret[1].out.value) :
          /\ RecKind(ret[1].out.value[k]) = "breach"
          /\ ret[1].out.value[k].args = << <<"1", "0", "0", ",", "0", "0", "1">> >>

\* C23: the recommendation list of an analysis is empty exactly when
\* final_score >= 80 and the password is neither common nor breached;
\* when final_score < 80 or the password is common or breached, the list
\* is the output of generate_recommendations on the result
C23_RecommendationsGenerated ==
    results # <<>> =>
        LET r == results[1]
            recommendations ==
                IF "recommendations" \in DOMAIN r THEN r.recommendations ELSE <<>>
        IN IF r.final_score >= 80 /\ ~Flag(r, "is_common") /\ ~Flag(r, "is_pwned")
           THEN recommendations = <<>>
           ELSE recommendations = generate_recommendations(r)

\* C24: for the password "password" the analysis gives base_score 30 (15
\* for the length 8 and 15 for lowercase), exactly one pattern penalty, the
\* keyboard pattern of 15 points, a score of 15 after the pattern penalties
\* with strength VERY WEAK, and, when the password is found common, a
\* further penalty of 50 points so that final_score is floored at 0
C24_PasswordExample ==
    (results # <<>> /\ password = <<"p", "a", "s", "s", "w", "o", "r", "d">>) =>
        LET r == results[1]
            IsPattern(e) == e.type \in PatternNames
            pattern_entries == SelectSeq(r.penalties, IsPattern)
            is_common == common_ret # <<>> /\ common_ret[1][1]
        IN /\ r.base_score = 30
           /\ r.checks[1].score = 15
           /\ r.checks[3].score = 15
           /\ Len(pattern_entries) = 1
           /\ pattern_entries[1].type = "Keyboard Pattern"
           /\ pattern_entries[1].penalty = 15
           /\ ~is_common => r.final_score = 15 /\ r.strength = "VERY WEAK"
           /\ is_common =>
                 /\ \E k \in 1..Len(r.penalties) : r.penalties[k].penalty = 50
                 /\ r.total_penalty = 65
                 /\ r.final_score = 0

\* C25: the empty password is analysed without raising and gives the
\* degenerate result: all five checks fail with score 0, entropy 0.0,
\* base_score 0, no pattern of any kind, total_penalty 0, final_score 0 and
\* strength VERY WEAK
C25_EmptyPassword ==
    (results # <<>> /\ password = <<>>) =>
        LET r == results[1]
        IN /\ Len(r.checks) = 5
           /\ \A k \in 1..5 : ~r.checks[k].passed /\ r.checks[k].score = 0
           /\ ~r.passed_all_checks
           /\ r.entropy = 0
           /\ r.base_score = 0
           /\ r.penalties = <<>>
           /\ ~r.has_weak_patterns
           /\ r.total_penalty = 0
           /\ r.final_score = 0
           /\ r.strength = "VERY WEAK"
           /\ detect_sequential_chars(password) = Return(<<>>)
           /\ detect_weak_patterns(password).kind = "return"
           /\ ~detect_weak_patterns(password).value.has_patterns

\* the empty password has been analysed
C25_Witness ==
    /\ password = <<>>
    /\ results # <<>>
    /\ results[1].strength = "VERY WEAK"
    /\ results[1].entropy_rating = "Very Low"

\* C26: across any sequence and any interleaving of concurrent
\* check_common_password calls the word list is loaded and
\* _COMMON_PASSWORDS_CACHE assigned at most once, and after that first
\* assignment the cache is never reassigned or modified: the number of
\* assignments to the cache never exceeds one
C26_LoadedAtMostOnce == loads <= 1

\* C27: when the word-list source is missing or reading it raises,
\* load_common_passwords returns the empty set after emitting a warning, and
\* check_common_password returns False for every password, in that call
\* and in every later call
C27_MissingSourceNotCommon ==
    (wordfile.state \in {"missing", "unreadable"} /\ common_ret # <<>>) =>
        /\ load_common_passwords(wordfile) = [passwords |-> {}, warned |-> TRUE]
        /\ warnings = 1
        /\ cache = <<{}>>
        /\ common_ret[1][1] = FALSE
        /\ \A q \in Chunks \cup {<<>>} :
              LET later == check_common_password(q, cache, wordfile)
              IN later.ret[1] = FALSE /\ later.cache = cache

\* "password" checked against an unreadable source
C27_Witness ==
    /\ wordfile.state = "unreadable"
    /\ password = <<"p", "a", "s", "s", "w", "o", "r", "d">>
    /\ common_ret # <<>>
    /\ common_ret[1][1] = FALSE
    /\ warnings = 1

\* the analysis or the display of the last input raised an exception other
\* than KeyboardInterrupt
FailedInput ==
    /\ main.raised # <<>>
    /\ main.raised[1] \notin {ExcKeyboardInterrupt, ExcSystemExit, ExcEOFError}

\* the process has ended only on the input 'exit' or on Ctrl+C, a failed
\* input was reported and left the loop at the prompt, and a result on
\* display is the analysis of the line just read
MainLoopState ==
    /\ main.pc = "exited" =>
          \/ main.cause = ExcKeyboardInterrupt
          \/ main.cause = ExcSystemExit /\ lower(main.line) = <<"e", "x", "i", "t">>
    /\ FailedInput => main.pc = "prompt" /\ main.report = "error"
    /\ main.pc = "display" => results = <<analyze_password(password)>>

\* a step of the analysis or display that raises leaves the result of the
\* earlier input and the word-list cache as they were
MainLoopStep ==
    (main.pc \in {"analyze", "display"} /\ main'.raised # <<>>) =>
        /\ results' = results
        /\ cache' = cache
        /\ password' = password

\* C28: in the loop of main(), when the analysis or the display of an input
\* raises an exception other than KeyboardInterrupt the process does not
\* terminate: the error is reported, nothing carried between inputs is
\* changed by the failed analysis, and the loop returns to the prompt, where
\* the next input is analysed normally; the loop ends only on the input
\* 'exit' in any letter case or on Ctrl+C
C28_MainLoopSurvives ==
    /\ []MainLoopState
    /\ [][MainLoopStep]_vars

\* after an input was analysed and displayed, the analysis of the next one
\* raised ValueError and the loop is back at the prompt
C28_Witness ==
    /\ main.pc = "prompt"
    /\ main.raised = <<ExcValueError>>
    /\ main.report = "error"
    /\ main.line = <<"a", "1", "2", SUPERSCRIPT_TWO>>
    /\ results # <<>>

\* C29: when the length check of an analysis has failed, the length
\* recommendation generate_recommendations produces from the result of that
\* analysis states the actual length of the analysed password: "currently
\* N" with N = len(password)
C29_LengthLineStatesLength ==
    (/\ Returned("generate_recommendations")
     /\ ret[1].arg = results[1]
     /\ FailedCheck(results[1], "Length")) =>
        \E k \in 1..Len(ret[1].out.value) :
            /\ RecKind(ret[1].out.value[k]) = "length"
            /\ ret[1].out.value[k].args = <<Len(password)>>

\* C30: for every password the functions of validators.py and analyzers.py
\* (with the catalogue of config.py) return the same values as the functions
\* of the same names defined in password_checker.py, so that the checks,
\* the entropy and its rating, the pattern findings and the total penalty
\* are the same under either implementation
C30_SameAsPasswordChecker ==
    (ret # <<>> /\ ret[1].out.kind = "return") =>
        LET fn == ret[1].fn
            v == ret[1].out.value
        IN CASE fn = "check_password_length" -> v = pc_check_password_length(password)
             [] fn = "check_uppercase" -> v = pc_check_uppercase(password)
             [] fn = "check_lowercase" -> v = pc_check_lowercase(password)
             [] fn = "check_digits" -> v = pc_check_digits(password)
             [] fn = "check_special_characters" -> v = pc_check_special_characters(password)
             [] fn = "calculate_entropy" ->
                    /\ v = pc_calculate_entropy(password)
                    /\ get_entropy_rating(v) = pc_get_entropy_rating(v)
             [] fn = "detect_sequential_chars" -> v = pc_detect_sequential_chars(password)
             [] fn = "detect_repeated_chars" -> v = pc_detect_repeated_chars(password)
             [] fn = "detect_common_years" -> v = pc_detect_common_years(password)
             [] fn = "detect_keyboard_patterns" -> v = pc_detect_keyboard_patterns(password)
             [] fn = "detect_weak_patterns" ->
                    /\ v = pc_detect_weak_patterns(password)
                    /\ \A score \in {0, 100 - v.total_penalty} :
                          get_strength_category(score) = pc_get_strength_category(score)
             [] OTHER -> TRUE

====
